---- MODULE Spec2Model ----
(***************************************************************************)
(* Model of Backend/smart_surveillance.py: the worker-supervision layer    *)
(* (start/stop handlers and worker threads of the VideoMAE and the         *)
(* missing-person pipelines) and the in-memory event and alert logs.       *)
(*                                                                         *)
(* Threads are the Flask request handlers and the worker threads created   *)
(* by the start handlers.  A step of the model is one thread executing up  *)
(* to its next access to shared state (the per-pipeline globals, the       *)
(* locks, the logs).  A handler is visible from the moment it holds its    *)
(* pipeline's lock to the moment it returns and leaves the lock: any       *)
(* number of handler threads may be waiting for the lock.                  *)
(*                                                                         *)
(* The specifications share the variables.  Spec / FairSpec: the          *)
(* handlers and workers of one pipeline; StreamSpec: the same, one worker  *)
(* on a video followed to its end; OrderSpec: the same, the samples        *)
(* numbered; BothSpec: requests at both pipelines.  SeqSpec: add_event and *)
(* add_missing_person_alert called one at a time on logs near their        *)
(* capacity.  LogSpec: the same calls step by step by interleaved threads, *)
(* with the read and reset endpoints.  LoopSpec: the loops of the two      *)
(* workers under the clock (clip interval, filters, cooldowns, dedup),     *)
(* across stops and starts.  BatchSpec / SamplerSpec / RecentSpec: the     *)
(* batch analyses of an uploaded video, their frame sampling, and the      *)
(* queries of the logs.  TrackSpec / CloseSpec: the centroid trackers and  *)
(* the rule engine of the design, frame after frame.  CooldownSpec: the    *)
(* three loops that keep cooldown windows, under one clock.  ClipSpec: one *)
(* call of get_videomae_clip, read by read.  ImageSpec: the calls of the   *)
(* single-image matching endpoint.                                         *)
(***************************************************************************)
EXTENDS Integers, Sequences, FiniteSets, TLC

\* ---------------------------------------------------------------- bounds
\* Number of worker threads that may be alive at once, both pipelines.
MaxWorkers == 2
\* Commits are offered to the workers only while the event log is shorter.
MaxLog == 1
\* Largest number of faces the cascade reports in one frame.
MaxFaces == 2
\* Number of samples (clips, processed frames) a video file holds.
MaxClips == 1
\* Number of calls of the log functions and of the log endpoints followed in
\* the runs of the logs alone.
MaxCalls == 3
\* Number of threads that may be inside the log functions at once.
MaxAppenders == 2
\* Number of worker runs followed, of advances of the clock and of commits
\* in the runs of the worker loops under the clock.
MaxRuns == 2
MaxTicks == 2
MaxCommits == 2
\* The samples and the sample events of a run that numbers its samples.
MaxSamples == 2
MaxLogged == 2
\* The frames a run of the trackers processes; the frames of a run of the
\* altercation counter.
MaxFrames == 3
MaxCloseFrames == 6

\* ------------------------------------------------------ program constants
MAX_EVENTS == 200
MAX_ALERTS == 200
\* videomae_worker: 0.70 in thousandths, and seconds.
CONF_THRESHOLD == 700
DEDUP_SEC == 10
ANY_COOLDOWN == 2
CLIP_INTERVAL_SEC == 2
\* missing_person_worker: its DISTANCE_THRESHOLD, and its DEDUP_SEC in seconds.
DISTANCE_THRESHOLD == 110
PERSON_DEDUP_SEC == 300
\* suspicious_detect: 0.60 in thousandths, and seconds; the cap on the sampled
\* frames of a batch analysis.
CONF_TH == 600
COOLDOWN_SEC == 30
max_samples == 300
frame_count == 16
\* DISTANCE_THRESHOLD of missing_detect_image, and the best_distance it
\* starts from.
IMAGE_DISTANCE_THRESHOLD == 100
best_distance == 999
\* time.time() when the first worker starts, in seconds.
Epoch == 1000

Pipelines == {"videomae", "missing"}
\* The live worker threads are numbered 1, 2, ... in the order of their start.
Workers == 1..MaxWorkers
\* Values of *_THREAD besides a live worker: None, and a Thread object whose
\* thread has ended.
None == 0
Ended == -1

\* Request bodies of the start endpoints: the "source" key (absent, a valid
\* kind, or something else) and the "video_path" key (absent, a path that
\* is no file, a path of an uploaded file).
Bodies ==
    { [src |-> "webcam", path |-> "none"],
      [src |-> "video",  path |-> "ok"],
      [src |-> "video",  path |-> "none"],
      [src |-> "video",  path |-> "nofile"],
      [src |-> "bogus",  path |-> "none"],
      [src |-> "absent", path |-> "none"] }

VARIABLES
    RUNNING,        \* VIDEOMAE_RUNNING / MISSING_PERSON_RUNNING
    STOP_EVENT,     \* VIDEOMAE_STOP_EVENT / MISSING_PERSON_STOP_EVENT (is_set)
    THREAD,         \* VIDEOMAE_THREAD / MISSING_PERSON_THREAD
    SOURCE,         \* VIDEOMAE_SOURCE / MISSING_PERSON_SOURCE
    VIDEO_PATH,     \* VIDEOMAE_VIDEO_PATH / MISSING_PERSON_VIDEO_PATH
    LOCK,           \* VIDEOMAE_LOCK / MISSING_PERSON_LOCK is held
    videomae_model, \* the lazily loaded VideoMAE model is cached
    SUSPICIOUS_EVENTS,
    MISSING_PERSON_ALERTS,
    req,            \* per pipeline, the handler that holds the lock
    wk,             \* the worker threads: position and locals
    served,         \* the pipelines the requests of this run address
    pair,           \* history: two starts that arrived together (ArrivePair)
    telling,        \* the told history of the workers is kept in this run
    following,      \* what the run keeps a history of: "nothing", one
                    \* "worker" on a video, the "samples" of the pipeline
    order,          \* history: the samples taken, the samples of the events
    scene,          \* the trackers and the rule engine of the frame analysis
    clip,           \* a call of get_videomae_clip: position and locals
    calls,          \* history: the calls of the log functions begun so far
    appended,       \* history: the entries appended to each log, in order
    appender,       \* the threads inside add_event / add_missing_person_alert
    observed,       \* what the readers and resetters of the logs were answered
    clock,          \* time.time(), in seconds
    ticks,          \* history: the advances of the clock so far
    loop,           \* the worker run under the clock: position and locals
    commits,        \* history: the events and alerts the worker runs committed
    transitions     \* history: RUNNING := True writes since the last := False

vars == << RUNNING, STOP_EVENT, THREAD, SOURCE, VIDEO_PATH, LOCK, videomae_model,
           SUSPICIOUS_EVENTS, MISSING_PERSON_ALERTS, req, wk, served, pair,
           telling, following, order, scene, clip, transitions, calls, appended, appender, observed, clock, ticks,
           loop, commits >>

globals == << RUNNING, STOP_EVENT, THREAD, SOURCE, VIDEO_PATH >>
logs == << SUSPICIOUS_EVENTS, MISSING_PERSON_ALERTS >>
history == << pair, transitions >>
\* The variables of the start/stop handlers and of the workers.
supervision == << globals, LOCK, videomae_model, req, wk, served, pair, telling,
                 following, order, scene, clip, transitions >>
\* The variables that only the runs of the logs alone use, and the switch of
\* the histories, which no step changes.
aside == << calls, appended, appender, observed, clock, ticks, loop, commits,
           following, scene, clip >>
apart == << aside, order >>
\* The variables that only the runs of the worker loops under the clock use.
timing == << clock, ticks, loop, commits >>

\* ------------------------------------------------------------------ logs
\* Variant of the trim: the slice is taken at the wrong end.
TrimNewest(log, max) ==
    IF Len(log) > max THEN SubSeq(log, 1, max) ELSE log

\* "if len(log) > MAX: del log[: len(log) - MAX]"
Trim(log, max) ==
    IF Len(log) > max THEN SubSeq(log, Len(log) - max + 1, Len(log)) ELSE log

add_event(log, type, status, confidence) ==
    Trim(Append(log, [type |-> type, status |-> status, confidence |-> confidence]),
         MAX_EVENTS)

AlertEntry(name, confidence) ==
    [type |-> "Missing Person Detected", name |-> name,
     confidence |-> confidence, status |-> "suspicious"]

\* Variant of add_missing_person_alert: no mirror event.
NoMirror(events, name, confidence) == events

\* add_missing_person_alert: the alert, then its mirror event.
AlertsAfter(alerts, name, confidence) ==
    Trim(Append(alerts, AlertEntry(name, confidence)), MAX_ALERTS)

MirrorAfter(events, name, confidence) ==
    add_event(events, "Missing Person", "suspicious", confidence)

\* ------------------------------------------------------- handler records
\* pc: the position; op: the endpoint; body: the request body a start has
\* read, kept until *_SOURCE is written and with a rejection; res: the
\* response; member (history): the start is one of the two of ArrivePair;
\* joined (history): the worker had ended when stop() left its join.
NoHandler ==
    [pc |-> "none", op |-> "none", body |-> [src |-> "webcam", path |-> "none"],
     res |-> "none", member |-> FALSE, joined |-> FALSE]

\* ------------------------------------------------------- worker records
\* pc: the position; pipe: the pipeline; source: the argument; cap: the
\* capture; frames: the samples left in a video; items: the clips or faces
\* of the sample still to process.  History: rel counts cap.release(),
\* committed tells that a face of the frame at hand has led to an alert, told
\* numbers the stop() that raised the stop event in the life of the worker
\* (0: none has).  In the runs that follow a worker: watched marks the one
\* worker on a video the run follows, retried tells that a read of the
\* worker has failed and the worker has gone on, why tells what made the
\* worker leave its loop.  In the runs that number the samples: sample is
\* the number of the sample the worker is at.
FreeWorker ==
    [pc |-> "free", pipe |-> "videomae", source |-> "webcam", cap |-> "none",
     rel |-> 0, frames |-> 0, items |-> 0, committed |-> FALSE, told |-> 0,
     retried |-> FALSE, why |-> "none", watched |-> FALSE, sample |-> 0]

Alive(w) == wk[w].pc # "free"
InLoop(w) == wk[w].pc \in {"loop", "proc", "except"}
FreeSlots == {w \in Workers : ~Alive(w)}
LiveWorkersOf(p) == {w \in Workers : Alive(w) /\ wk[w].pipe = p}

\* list(log) and the order a mutated copy would give instead.
AsStored(log) == log

\* "list(reversed(log))"
Reversed(log) == [i \in 1..Len(log) |-> log[Len(log) + 1 - i]]

\* "list[:n]"
FirstN(list, n) == IF Len(list) <= n THEN list ELSE SubSeq(list, 1, n)

\* The globals of the handlers and workers after import of the module.
Imported(pipes, tell) ==
    /\ RUNNING = [p \in Pipelines |-> FALSE]
    /\ STOP_EVENT = [p \in Pipelines |-> FALSE]
    /\ THREAD = [p \in Pipelines |-> None]
    /\ SOURCE = [p \in Pipelines |-> "webcam"]
    /\ VIDEO_PATH = [p \in Pipelines |-> "none"]
    /\ LOCK = [p \in Pipelines |-> FALSE]
    /\ videomae_model = FALSE
    /\ req = [p \in Pipelines |-> NoHandler]
    /\ wk = [w \in Workers |-> FreeWorker]
    /\ served \in pipes
    /\ telling = tell
    /\ pair = [p \in Pipelines |-> "none"]
    /\ transitions = [p \in Pipelines |-> 0]

\* A thread that is not inside a log function.  log: the list the call is
\* at; entry: what it appends; mirror: the call of add_event to follow; n:
\* the slice bound it has computed; fresh (history): no reset of the list
\* since the call began.
NoCall ==
    [pc |-> "idle", log |-> "events", entry |-> << >>, mirror |-> << >>,
     n |-> 0, fresh |-> FALSE]

\* Nobody is at the logs; nothing was read or reset.
LogsIdle ==
    /\ calls = 0
    /\ appender = [a \in 1..MaxAppenders |-> NoCall]
    /\ observed = [seen |-> 0, count |-> 0, prior |-> 0, of |-> "none",
                   reply |-> << >>]

\* The labels the classifier answers with, each with label.lower().
LowerOf ==
    [Fighting |-> "fighting", Walking |-> "walking", Normal |-> "normal"]
Labels == DOMAIN LowerOf
\* The names of the trained persons.
Names == {"John", "Asha"}

\* No worker run: the locals as lines 440-442 and 620 initialise them, the
\* latest classification (label, prob) and its time.time() (now).
NoRun ==
    [id |-> 0, live |-> FALSE, pipe |-> "none", pc |-> "top", now |-> 0,
     label |-> "none", prob |-> 0,
     last_clip_time |-> 0, last_any_emit |-> 0,
     last_label_emit |-> [l \in Labels |-> 0],
     last_person_emit |-> [n \in Names |-> 0]]

\* No frame processed: two trackers without tracks (tracks: id -> track;
\* issued: the last id given), the altercation counter at 0.  History: what
\* the last frame was given and answered (last), per frame whether people
\* were close, the altercation events and the counter after it, and per
\* heuristic and track id the events committed.
NoFrame ==
    [people |-> << >>, ids |-> << >>, before |-> << >>, issued |-> 0]

NoScene ==
    [people |-> [tracks |-> << >>, issued |-> 0],
     objects |-> [tracks |-> << >>, issued |-> 0],
     counter |-> 0, now |-> 0, frames |-> 0,
     last |-> NoFrame, close |-> << >>, altercations |-> << >>,
     counters |-> << >>,
     fired |-> [Running |-> << >>, Loitering |-> << >>, Unattended |-> << >>]]

\* No call of get_videomae_clip.  History: reads counts the cap.read()
\* calls, rets holds what the first read of each turn of the loop returned,
\* retry what the second read of a turn did ("none": there was none).
NoClip ==
    [pc |-> "none", i |-> 0, frames |-> << >>, last_frame |-> None,
     reads |-> 0, rets |-> << >>, retry |-> "none", isNone |-> FALSE]

\* The clock at the start, no worker run yet, no frame processed, no clip
\* asked for.
NoLoops ==
    /\ scene = NoScene
    /\ clip = NoClip
    /\ clock = Epoch
    /\ ticks = 0
    /\ loop = NoRun
    /\ commits = << >>

\* No sample taken: taken counts the samples of the pipeline, logged holds
\* the sample numbers of the events and alerts committed for samples, in the
\* order of the log.
NoSamples == [taken |-> 0, logged |-> << >>]

\* The logs are empty and nobody is at them, the clock is at its start.
Unused ==
    /\ NoLoops
    /\ SUSPICIOUS_EVENTS = << >>
    /\ MISSING_PERSON_ALERTS = << >>
    /\ LogsIdle
    /\ appended = [events |-> << >>, alerts |-> << >>]

InitWith(pipes, tell) ==
    /\ Imported(pipes, tell)
    /\ following = "nothing"
    /\ order = NoSamples
    /\ NoLoops
    /\ SUSPICIOUS_EVENTS = << >>
    /\ MISSING_PERSON_ALERTS = << >>
    /\ LogsIdle
    /\ appended = [events |-> << >>, alerts |-> << >>]

\* The state after import of the module; the requests of a run address one
\* of the pipelines.
Init == InitWith({{"videomae"}, {"missing"}}, FALSE)

\* ------------------------------------------------------ request handlers
\* data.get("source") in videomae_start, data.get("source", "webcam") in
\* missing_start_detection.
SourceOf(p, body) ==
    IF body.src = "absent"
    THEN (IF p = "missing" THEN "webcam" ELSE "None")
    ELSE body.src

\* Variant of the validation: every body passes.
AcceptAll(p, body) == "ok"

\* The validation of the source descriptor, in the order of the code.
Validate(p, body) ==
    IF SourceOf(p, body) \notin {"webcam", "video"} THEN "bad_source"
    ELSE IF SourceOf(p, body) = "video" /\ body.path = "none" THEN "no_path"
    ELSE IF SourceOf(p, body) = "video" /\ body.path = "nofile" THEN "not_found"
    ELSE "ok"

\* The value the accepted request stores in *_VIDEO_PATH.
PathOf(p, body) == IF SourceOf(p, body) = "video" THEN body.path ELSE "none"

\* Variants of the running check of start(): none at all; one that knows
\* only a run on the webcam.
IgnoreRunning(p) == FALSE
RunningOnWebcam(p) == RUNNING[p] /\ SOURCE[p] = "webcam"

\* "if VIDEOMAE_RUNNING: return ... already running"
AlreadyRunning(p) == RUNNING[p]

\* Variant of the check of stop(): none at all.
IgnoreStopped(p) == FALSE

\* "if not VIDEOMAE_RUNNING: return ... already stopped"
AlreadyStopped(p) == ~RUNNING[p]

\* Variant of stop(): the running flag is left to the worker.
StaysRunning == TRUE

\* The value stop() writes to *_RUNNING after raising the stop event.
RunningAfterStop == FALSE

\* "THREAD and THREAD.is_alive()"
ThreadAlive(p) == THREAD[p] \notin {None, Ended}

\* "with LOCK:" entered.
Acquire(p) ==
    /\ ~LOCK[p]
    /\ LOCK' = [LOCK EXCEPT ![p] = TRUE]

\* The handler has its response; it is sent when the handler returns.
Response(c, res) ==
    [NoHandler EXCEPT !.pc = "reply", !.op = c.op, !.res = res]

\* The handlers that are past the running check of a start.
Starting ==
    {p \in Pipelines : req[p].pc \in {"validate", "load", "clear", "run", "thread"}}

\* History of two start requests that arrive together at an idle pipeline
\* (not running, no worker alive, nobody in the lock) and wait for the lock:
\*   "two"     both wait;
\*   "first"   one of them is in the lock;
\*   "one"     that one has started a worker, the other waits still;
\*   "second"  the other is in the lock;
\*   "both"    the other has started a worker too.
\* While the two are followed no other request takes the lock; the run goes
\* on as any other once they are forgotten ("none").
ArrivePair(p) ==
    /\ p \in served
    /\ pair[p] = "none"
    /\ ~RUNNING[p] /\ LiveWorkersOf(p) = {} /\ ~LOCK[p]
    /\ pair' = [pair EXCEPT ![p] = "two"]
    /\ UNCHANGED << globals, LOCK, videomae_model, logs, req, wk, served,
                    telling, apart, transitions >>

\* "with LOCK: if RUNNING: return already running".  A start that goes on
\* will need a thread, so it waits until one of the MaxWorkers slots is left
\* for it.
StartLock(p) ==
    /\ p \in served
    /\ pair[p] \in {"none", "two", "one"}
    /\ Cardinality(FreeSlots) > Cardinality(Starting)
    /\ Acquire(p)
    /\ req' = [req EXCEPT ![p] =
                 IF AlreadyRunning(p)
                 THEN [Response([op |-> "start"], "already") EXCEPT
                          !.member = pair[p] # "none"]
                 ELSE [NoHandler EXCEPT !.pc = "validate", !.op = "start",
                          !.member = pair[p] # "none"]]
    /\ pair' = [pair EXCEPT ![p] = CASE @ = "two" -> "first"
                                     [] @ = "one" -> "second"
                                     [] OTHER -> @]
    /\ UNCHANGED << globals, videomae_model, logs, wk,
                    served, telling, apart, transitions >>

\* "data = request.get_json()" and the source checks; an accepted request
\* stores *_VIDEO_PATH.
StartValidate(p) ==
    /\ req[p].pc = "validate"
    /\ \E body \in Bodies :
          IF Validate(p, body) # "ok"
          THEN /\ req' = [req EXCEPT ![p] =
                            [Response(req[p], Validate(p, body)) EXCEPT
                                !.body = body]]
               /\ UNCHANGED VIDEO_PATH
          ELSE /\ req' = [req EXCEPT ![p].pc = "load", ![p].body = body]
               /\ VIDEO_PATH' = [VIDEO_PATH EXCEPT ![p] = PathOf(p, body)]
    /\ UNCHANGED << RUNNING, STOP_EVENT, THREAD, SOURCE, LOCK, videomae_model,
                    logs, wk, served, telling, apart, history >>

\* videomae_start loads the model first (a cached model always loads; the
\* first load may fail); then *_SOURCE = source.
StartLoad(p) ==
    /\ req[p].pc = "load"
    /\ \E loads \in BOOLEAN :
          /\ (p = "missing" \/ videomae_model) => loads
          /\ IF loads
             THEN /\ req' = [req EXCEPT ![p].pc = "clear",
                                        ![p].body = NoHandler.body]
                  /\ SOURCE' = [SOURCE EXCEPT ![p] = SourceOf(p, req[p].body)]
                  /\ videomae_model' = (videomae_model \/ p = "videomae")
             ELSE /\ req' = [req EXCEPT ![p] = Response(req[p], "unavailable")]
                  /\ UNCHANGED << SOURCE, videomae_model >>
    /\ UNCHANGED << RUNNING, STOP_EVENT, THREAD, VIDEO_PATH, LOCK, logs, wk,
                    served, telling, apart, history >>

\* "STOP_EVENT.clear()"
StartClear(p) ==
    /\ req[p].pc = "clear"
    /\ STOP_EVENT' = [STOP_EVENT EXCEPT ![p] = FALSE]
    /\ req' = [req EXCEPT ![p].pc = "run"]
    /\ UNCHANGED << RUNNING, THREAD, SOURCE, VIDEO_PATH, LOCK, videomae_model,
                    logs, wk, served, telling, apart, history >>

\* "RUNNING = True"
StartRun(p) ==
    /\ req[p].pc = "run"
    /\ RUNNING' = [RUNNING EXCEPT ![p] = TRUE]
    /\ transitions' = [transitions EXCEPT ![p] = @ + 1]
    /\ req' = [req EXCEPT ![p].pc = "thread"]
    /\ UNCHANGED << STOP_EVENT, THREAD, SOURCE, VIDEO_PATH, LOCK, videomae_model,
                    logs, wk, served, telling, apart, pair >>

\* The worker thread as threading.Thread(target=..., args=(SOURCE, VIDEO_PATH))
\* creates it.
NewWorker(p) ==
    [FreeWorker EXCEPT !.pc = "init", !.pipe = p, !.source = SOURCE[p]]

\* "THREAD = threading.Thread(...); THREAD.start()"
StartThread(p) ==
    LET w == CHOOSE x \in FreeSlots : \A y \in FreeSlots : x <= y
    IN  /\ req[p].pc = "thread"
        /\ \E watch \in BOOLEAN :
              /\ watch => /\ following = "worker"
                          /\ SOURCE[p] = "video"
                          /\ \A v \in Workers : ~wk[v].watched
              /\ wk' = [wk EXCEPT ![w] = [NewWorker(p) EXCEPT !.watched = watch]]
        /\ THREAD' = [THREAD EXCEPT ![p] = w]
        /\ pair' = [pair EXCEPT ![p] = CASE @ = "first" -> "one"
                                         [] @ = "second" -> "both"
                                         [] OTHER -> @]
        /\ req' = [req EXCEPT ![p] =
                     Response(req[p], "started")]
        /\ UNCHANGED << RUNNING, STOP_EVENT, SOURCE, VIDEO_PATH, LOCK,
                        videomae_model, logs, served, telling, apart, transitions >>

\* "with LOCK: if not RUNNING: return already stopped"
StopLock(p) ==
    /\ p \in served
    /\ pair[p] = "none"
    /\ Acquire(p)
    /\ req' = [req EXCEPT ![p] =
                 IF AlreadyStopped(p)
                 THEN Response([op |-> "stop"], "noop")
                 ELSE [NoHandler EXCEPT !.pc = "set", !.op = "stop"]]
    /\ UNCHANGED << globals, videomae_model, logs, wk, served, telling, apart, history >>

\* The workers of p that are alive when a stop() raises the stop event, and
\* have seen no stop() before, get the least number no live worker has (in
\* the runs that keep this history).
Tell(p) ==
    LET fresh == {w \in LiveWorkersOf(p) : telling /\ wk[w].told = 0}
        used == {wk[w].told : w \in Workers}
        t == CHOOSE x \in (1..MaxWorkers) \ used :
                \A y \in (1..MaxWorkers) \ used : x <= y
    IN  IF fresh = {} THEN wk
        ELSE [w \in Workers |-> IF w \in fresh THEN [wk[w] EXCEPT !.told = t]
                                ELSE wk[w]]

\* Variant of the stop events: one event that the pipelines share.
RaisedForAll(events, p) == [q \in Pipelines |-> TRUE]

\* VIDEOMAE_STOP_EVENT.set() / MISSING_PERSON_STOP_EVENT.set(): each
\* pipeline has its own threading.Event().
Raised(events, p) == [events EXCEPT ![p] = TRUE]

\* "STOP_EVENT.set()"
StopSet(p) ==
    /\ req[p].pc = "set"
    /\ STOP_EVENT' = Raised(STOP_EVENT, p)
    /\ req' = [req EXCEPT ![p].pc = "unrun"]
    /\ wk' = Tell(p)
    /\ UNCHANGED << RUNNING, THREAD, SOURCE, VIDEO_PATH, LOCK, videomae_model,
                    logs, served, telling, apart, history >>

\* "RUNNING = False"
StopUnrun(p) ==
    /\ req[p].pc = "unrun"
    /\ RUNNING' = [RUNNING EXCEPT ![p] = RunningAfterStop]
    /\ transitions' = [transitions EXCEPT ![p] = IF RunningAfterStop THEN @ ELSE 0]
    /\ req' = [req EXCEPT ![p].pc = "join"]
    /\ UNCHANGED << STOP_EVENT, THREAD, SOURCE, VIDEO_PATH, LOCK, videomae_model,
                    logs, wk, served, telling, apart, pair >>

\* "if THREAD and THREAD.is_alive(): THREAD.join(timeout=3)"; "THREAD = None".
\* The join returns when the worker has ended or when the 3 s are over,
\* whichever is first: with the worker alive this step is the timeout.
StopJoin(p) ==
    /\ req[p].pc = "join"
    /\ THREAD' = [THREAD EXCEPT ![p] = None]
    /\ req' = [req EXCEPT ![p] =
                 [Response(req[p], "stopped") EXCEPT !.joined = ~ThreadAlive(p)]]
    /\ UNCHANGED << RUNNING, STOP_EVENT, SOURCE, VIDEO_PATH, LOCK, videomae_model,
                    logs, wk, served, telling, apart, history >>

\* The handler returns its response and leaves the lock.  The two starts
\* that arrived together are followed while the first has started a worker
\* and the second has not returned.
Return(p) ==
    /\ req[p].pc = "reply"
    /\ req' = [req EXCEPT ![p] = NoHandler]
    /\ LOCK' = [LOCK EXCEPT ![p] = FALSE]
    /\ pair' = [pair EXCEPT ![p] = IF @ = "one" THEN "one" ELSE "none"]
    /\ UNCHANGED << globals, videomae_model, logs, wk,
                    served, telling, apart, transitions >>

Serve(p) ==
    \/ StartLock(p) \/ StartValidate(p) \/ StartLoad(p) \/ StartClear(p)
    \/ StartRun(p) \/ StartThread(p)
    \/ StopLock(p) \/ StopSet(p) \/ StopUnrun(p) \/ StopJoin(p)
    \/ Return(p)

\* --------------------------------------------------------- worker threads
\* What can fail before the loop: the imports, the model or the trained face
\* model, the video file, the capture.  load_videomae_model cannot fail in
\* the worker once videomae_start has cached the model.
Faults(w) ==
    IF wk[w].pipe = "videomae"
    THEN {"libs", "open"} \cup (IF videomae_model THEN {} ELSE {"model"})
         \cup (IF wk[w].source = "video" THEN {"nofile"} ELSE {})
    ELSE {"libs", "cascade", "untrained", "open"}
         \cup (IF wk[w].source = "video" THEN {"nofile"} ELSE {})

\* The value every early return of a worker writes to *_RUNNING.
RunningAfterFault == FALSE

\* Variant of the early return: it commits nothing.
NoFaultEvent(events) == events

\* The events an early return of a worker commits:
\* add_event("Error", ..., status="warning").
FaultEvents(events) == add_event(events, "Error", "warning", 60)

\* Variant of the finally block: the capture is left as it is.
KeepCap(c) == c

\* "if cap is not None: cap.release()" of the finally block.
ReleaseCap(c) ==
    IF c.cap # "none" THEN [c EXCEPT !.cap = "released", !.rel = @ + 1] ELSE c

\* Variant of the inner except: it leaves the loop.
BreakOut == "finally"

\* Where the inner "except Exception" of the loop goes on: "continue", the
\* next pass of the loop.
AfterExcept == "loop"

\* The thread of worker w ends: the later workers move up, the Thread
\* objects follow.
WorkersAfterEnd(w) ==
    [i \in Workers |-> IF i < w THEN wk[i]
                       ELSE IF i < MaxWorkers THEN wk[i + 1]
                       ELSE FreeWorker]

ThreadsAfterEnd(w) ==
    [p \in Pipelines |-> IF THREAD[p] = w THEN Ended
                         ELSE IF THREAD[p] > w THEN THREAD[p] - 1
                         ELSE THREAD[p]]

\* The worker leaves its loop for the finally block.
Leave(c) ==
    [FreeWorker EXCEPT !.pc = "finally", !.pipe = c.pipe, !.cap = c.cap,
                       !.rel = c.rel, !.told = c.told]

\* The worker leaves its loop; history: what made it leave.
Because(c, why) ==
    IF following = "worker" THEN [Leave(c) EXCEPT !.why = why, !.watched = c.watched]
    ELSE Leave(c)

\* Variant of the failed read: it ends the loop whatever the source.
BreakAlways(source) == "finally"

\* "if not ok: if source == "video": break; time.sleep(0.2); continue"
AfterNoFrame(source) == IF source = "video" THEN "finally" ELSE "loop"

\* The worker reaches its loop: imports, models and capture are there.
WorkerOpen(w) ==
    /\ wk[w].pc = "init"
    /\ wk' = [wk EXCEPT ![w].pc = "loop", ![w].cap = "open",
                 ![w].frames = IF wk[w].source = "video" THEN MaxClips ELSE 0]
    /\ UNCHANGED << globals, LOCK, videomae_model, logs, req,
                    served, telling, apart, history >>

\* A fault before the loop: "add_event("Error", ...); RUNNING = False; return".
WorkerFault(w) ==
    /\ wk[w].pc = "init"
    /\ Faults(w) # {}
    /\ Len(SUSPICIOUS_EVENTS) < MaxLog
    /\ SUSPICIOUS_EVENTS' = FaultEvents(SUSPICIOUS_EVENTS)
    /\ RUNNING' = [RUNNING EXCEPT ![wk[w].pipe] = RunningAfterFault]
    /\ transitions' = [transitions EXCEPT ![wk[w].pipe] =
                          IF RunningAfterFault THEN @ ELSE 0]
    /\ wk' = WorkersAfterEnd(w)
    /\ THREAD' = ThreadsAfterEnd(w)
    /\ UNCHANGED << STOP_EVENT, SOURCE, VIDEO_PATH, LOCK, videomae_model,
                    MISSING_PERSON_ALERTS, req, served, telling, apart, pair >>

\* "while not STOP_EVENT.is_set()" finds the event set.
WorkerCancel(w) ==
    /\ wk[w].pc = "loop"
    /\ STOP_EVENT[wk[w].pipe]
    /\ wk' = [wk EXCEPT ![w] = Because(wk[w], "cancel")]
    /\ UNCHANGED << globals, LOCK, videomae_model, logs, req,
                    served, telling, apart, history >>

\* The read finds no frame: "break" for a video at its end; for the webcam
\* "time.sleep(0.2); continue".
WorkerNoData(w) ==
    /\ wk[w].pc = "loop"
    /\ ~STOP_EVENT[wk[w].pipe]
    /\ wk[w].source = "video" => wk[w].frames = 0
    /\ wk' = IF AfterNoFrame(wk[w].source) = "finally"
             THEN [wk EXCEPT ![w] = Because(wk[w], "eof")]
             ELSE [wk EXCEPT ![w].retried = (following = "worker")]
    /\ UNCHANGED << globals, LOCK, videomae_model, logs, req,
                    served, telling, apart, history >>

\* An exception outside the inner try (the read itself): the outer except.
WorkerFatal(w) ==
    /\ wk[w].pc = "loop"
    /\ ~STOP_EVENT[wk[w].pipe]
    /\ wk' = [wk EXCEPT ![w] = Because(wk[w], "fatal")]
    /\ UNCHANGED << globals, LOCK, videomae_model, logs, req,
                    served, telling, apart, history >>

\* The read yields the next sample: a clip to classify, or every
\* FRAME_SKIP-th frame with the faces the cascade finds in it (none: "sleep",
\* next pass), or the face detection raises (broken).
WorkerSample(w) ==
    LET c == wk[w]
        video == c.source = "video"
    IN  /\ c.pc = "loop"
        /\ ~STOP_EVENT[c.pipe]
        /\ video => c.frames > 0
        /\ following = "samples" => order.taken < MaxSamples
        /\ order' = IF following = "samples" THEN [order EXCEPT !.taken = @ + 1]
                     ELSE order
        /\ \E n \in (IF c.pipe = "videomae" THEN {1} ELSE 0..MaxFaces),
              broken \in BOOLEAN :
              /\ broken => c.pipe = "missing" /\ n = 0
              /\ wk' = [wk EXCEPT
                          ![w].frames = IF video THEN @ - 1 ELSE @,
                          ![w].items = n,
                          ![w].sample = IF following = "samples"
                                        THEN order.taken + 1 ELSE 0,
                          ![w].pc = IF broken THEN "except"
                                    ELSE IF n = 0 THEN "loop" ELSE "proc"]
        /\ UNCHANGED << globals, LOCK, videomae_model, logs, req,
                        served, telling, aside, history >>

\* The worker after the clip or face it is at.
Advance(c, committed) ==
    [c EXCEPT !.items = @ - 1,
              !.pc = IF c.items = 1 THEN "loop" ELSE "proc",
              !.committed = c.items > 1 /\ committed]

\* Nothing to commit for the clip or face: normal, low confidence, no match,
\* cooldown.
WorkerSkip(w) ==
    /\ wk[w].pc = "proc"
    /\ wk' = [wk EXCEPT ![w] = Advance(wk[w], wk[w].committed)]
    /\ UNCHANGED << globals, LOCK, videomae_model, logs, req,
                    served, telling, apart, history >>

\* The events a run lets the workers commit for their samples.
LogCap == IF following = "samples" THEN MaxLogged ELSE MaxLog

\* add_event for the clip; add_missing_person_alert for the face.
WorkerCommit(w) ==
    /\ wk[w].pc = "proc"
    /\ Len(SUSPICIOUS_EVENTS) < LogCap
    /\ wk' = [wk EXCEPT ![w] = Advance(wk[w], TRUE)]
    /\ order' = IF following = "samples"
                 THEN [order EXCEPT !.logged = Append(@, wk[w].sample)]
                 ELSE order
    /\ IF wk[w].pipe = "videomae"
       THEN /\ SUSPICIOUS_EVENTS' =
                  add_event(SUSPICIOUS_EVENTS, "Fighting", "suspicious", 85)
            /\ UNCHANGED MISSING_PERSON_ALERTS
       ELSE /\ MISSING_PERSON_ALERTS' = AlertsAfter(MISSING_PERSON_ALERTS, "John", 60)
            /\ SUSPICIOUS_EVENTS' = MirrorAfter(SUSPICIOUS_EVENTS, "John", 60)
    /\ UNCHANGED << globals, LOCK, videomae_model, req, served, telling, aside, history >>

\* The inference, or the processing of the face, raises.
WorkerTransient(w) ==
    /\ wk[w].pc = "proc"
    /\ wk' = [wk EXCEPT ![w].pc = "except", ![w].items = 0]
    /\ UNCHANGED << globals, LOCK, videomae_model, logs, req,
                    served, telling, apart, history >>

\* "except Exception as e: print(...)" inside the loop, then the next pass.
WorkerExcept(w) ==
    /\ wk[w].pc = "except"
    /\ wk' = [wk EXCEPT ![w] = IF AfterExcept = "loop"
                                THEN [wk[w] EXCEPT !.pc = "loop", !.committed = FALSE]
                                ELSE Leave(wk[w])]
    /\ UNCHANGED << globals, LOCK, videomae_model, logs, req,
                    served, telling, apart, history >>

\* finally: "cap.release()", "STOP_EVENT.clear()"
WorkerFinally(w) ==
    /\ wk[w].pc = "finally"
    /\ wk' = [wk EXCEPT ![w] = [ReleaseCap(wk[w]) EXCEPT !.pc = "exit"]]
    /\ STOP_EVENT' = [STOP_EVENT EXCEPT ![wk[w].pipe] = FALSE]
    /\ UNCHANGED << RUNNING, THREAD, SOURCE, VIDEO_PATH, LOCK, videomae_model,
                    logs, req, served, telling, apart, history >>

\* finally: "RUNNING = False"; the thread ends.
WorkerExit(w) ==
    /\ wk[w].pc = "exit"
    /\ RUNNING' = [RUNNING EXCEPT ![wk[w].pipe] = FALSE]
    /\ transitions' = [transitions EXCEPT ![wk[w].pipe] = 0]
    /\ wk' = WorkersAfterEnd(w)
    /\ THREAD' = ThreadsAfterEnd(w)
    /\ UNCHANGED << STOP_EVENT, SOURCE, VIDEO_PATH, LOCK, videomae_model,
                    logs, req, served, telling, apart, pair >>

Work(w) ==
    \/ WorkerOpen(w) \/ WorkerFault(w)
    \/ WorkerCancel(w) \/ WorkerNoData(w) \/ WorkerFatal(w) \/ WorkerSample(w)
    \/ WorkerSkip(w) \/ WorkerCommit(w) \/ WorkerTransient(w) \/ WorkerExcept(w)
    \/ WorkerFinally(w) \/ WorkerExit(w)

Next ==
    \/ \E p \in Pipelines : ArrivePair(p)
    \/ \E p \in Pipelines : Serve(p)
    \/ \E w \in Workers : Work(w)

Spec == Init /\ [][Next]_vars

\* The same runs with the told history of the workers.
InitTelling == InitWith({{"videomae"}, {"missing"}}, TRUE)

\* The threads are scheduled fairly: a handler that can go on does, a worker
\* that can go on does.  Requests arrive or not.
Progress(p) ==
    \/ StartValidate(p) \/ StartLoad(p) \/ StartClear(p) \/ StartRun(p)
    \/ StartThread(p) \/ StopSet(p) \/ StopUnrun(p) \/ StopJoin(p) \/ Return(p)

FairSpec ==
    /\ InitTelling /\ [][Next]_vars
    /\ \A p \in Pipelines : WF_vars(Progress(p))
    /\ \A w \in Workers : WF_vars(Work(w))

\* The same runs, fairly scheduled, with the history of one followed worker.
InitFollowing ==
    /\ Imported({{"videomae"}, {"missing"}}, FALSE)
    /\ following = "worker"
    /\ order = NoSamples
    /\ Unused

StreamSpec ==
    /\ InitFollowing /\ [][Next]_vars
    /\ \A p \in Pipelines : WF_vars(Progress(p))
    /\ \A w \in Workers : WF_vars(Work(w))

\* The same runs with the samples of the pipeline numbered as they are taken.
InitOrder ==
    /\ Imported({{"videomae"}, {"missing"}}, FALSE)
    /\ following = "samples"
    /\ order = NoSamples
    /\ Unused

OrderSpec == InitOrder /\ [][Next]_vars

\* The runs whose requests address both pipelines.
InitBoth == InitWith({Pipelines}, FALSE)

\* The workers' ways into and out of their loops; what a worker does with a
\* sample touches the logs alone and is left aside.
BothNext ==
    \/ \E p \in Pipelines : Serve(p)
    \/ \E w \in Workers :
          \/ WorkerOpen(w) \/ WorkerFault(w)
          \/ WorkerCancel(w) \/ WorkerNoData(w) \/ WorkerFatal(w)
          \/ WorkerSample(w) \/ WorkerSkip(w)
          \/ WorkerFinally(w) \/ WorkerExit(w)

BothSpec == InitBoth /\ [][BothNext]_vars

\* ------------------------------------------------------- the logs alone
\* What the callers hand to add_event and to add_missing_person_alert.
EventKinds ==
    { [type |-> "Error", status |-> "warning", confidence |-> 60],
      [type |-> "Fighting", status |-> "suspicious", confidence |-> 85] }

AlertKinds ==
    { [name |-> "John", confidence |-> 60],
      [name |-> "Asha", confidence |-> 97] }

\* The logs after n <= 200 calls add_missing_person_alert("John", ...,
\* confidence i % 101), i = 1..n, one after the other: the alerts, and their
\* mirror events.
PastAlerts(n) == [i \in 1..n |-> AlertEntry("John", i % 101)]

PastEvents(n) ==
    [i \in 1..n |-> [type |-> "Missing Person", status |-> "suspicious",
                     confidence |-> i % 101]]

\* The process has made n calls of add_missing_person_alert so far, the
\* handlers and workers are left aside.
InitLogs(n) ==
    /\ Imported({{}}, FALSE)
    /\ following = "nothing"
    /\ order = NoSamples
    /\ SUSPICIOUS_EVENTS = PastEvents(n)
    /\ MISSING_PERSON_ALERTS = PastAlerts(n)
    /\ LogsIdle
    /\ NoLoops
    /\ appended = [events |-> PastEvents(n), alerts |-> PastAlerts(n)]

\* add_event(...) by one caller, no other thread between its steps.
CallAddEvent ==
    /\ calls < MaxCalls
    /\ calls' = calls + 1
    /\ \E k \in EventKinds :
          /\ SUSPICIOUS_EVENTS' =
                add_event(SUSPICIOUS_EVENTS, k.type, k.status, k.confidence)
          /\ appended' = [appended EXCEPT !.events = Append(@, k)]
    /\ UNCHANGED << MISSING_PERSON_ALERTS, supervision, timing, appender, observed >>

\* add_missing_person_alert(...) by one caller, no other thread between its
\* steps.
CallAddAlert ==
    /\ calls < MaxCalls
    /\ calls' = calls + 1
    /\ \E k \in AlertKinds :
          /\ MISSING_PERSON_ALERTS' =
                AlertsAfter(MISSING_PERSON_ALERTS, k.name, k.confidence)
          /\ SUSPICIOUS_EVENTS' =
                MirrorAfter(SUSPICIOUS_EVENTS, k.name, k.confidence)
          /\ appended' =
                [events |-> Append(appended.events,
                                   [type |-> "Missing Person",
                                    status |-> "suspicious",
                                    confidence |-> k.confidence]),
                 alerts |-> Append(appended.alerts,
                                   [type |-> "Missing Person Detected",
                                    name |-> k.name,
                                    confidence |-> k.confidence,
                                    status |-> "suspicious"])]
    /\ UNCHANGED << supervision, timing, appender, observed >>

SeqNext == CallAddEvent \/ CallAddAlert

\* Calls executed one at a time, on logs that are empty, one short of full,
\* or full.
SeqInit == \E n \in {0, MAX_EVENTS - 1, MAX_EVENTS} : InitLogs(n)

SeqSpec == SeqInit /\ [][SeqNext]_vars

\* ------------------------------------------- the logs, threads interleaved
Appenders == 1..MaxAppenders

\* The list a call is at, and its capacity.
LogOf(c) == IF c.log = "events" THEN SUSPICIOUS_EVENTS ELSE MISSING_PERSON_ALERTS
MaxOf(c) == IF c.log = "events" THEN MAX_EVENTS ELSE MAX_ALERTS

\* "del log[:n]": the first n entries go, all of them if there are fewer; a
\* negative n counts from the end of the list, as a slice bound does.
DropFirst(log, n) ==
    LET stop == IF n < 0
                THEN (IF Len(log) + n < 0 THEN 0 ELSE Len(log) + n)
                ELSE (IF n > Len(log) THEN Len(log) ELSE n)
    IN  IF stop = Len(log) THEN << >> ELSE SubSeq(log, stop + 1, Len(log))

\* The lists with the list of call c replaced.
SetLog(c, log) ==
    /\ SUSPICIOUS_EVENTS' = IF c.log = "events" THEN log ELSE SUSPICIOUS_EVENTS
    /\ MISSING_PERSON_ALERTS' =
          IF c.log = "alerts" THEN log ELSE MISSING_PERSON_ALERTS

\* The call is through with its list: add_missing_person_alert goes on to
\* its add_event, add_event returns.
Through(c) ==
    IF c.mirror # << >>
    THEN [NoCall EXCEPT !.pc = "append", !.entry = c.mirror[1], !.fresh = TRUE]
    ELSE NoCall

\* A thread calls add_event.
BeginEvent(a) ==
    /\ appender[a].pc = "idle"
    /\ calls < MaxCalls
    /\ calls' = calls + 1
    /\ \E k \in EventKinds :
          appender' = [appender EXCEPT ![a] =
                         [NoCall EXCEPT !.pc = "append", !.entry = k,
                                        !.fresh = TRUE]]
    /\ UNCHANGED << logs, supervision, timing, appended, observed >>

\* A thread calls add_missing_person_alert.
BeginAlert(a) ==
    /\ appender[a].pc = "idle"
    /\ calls < MaxCalls
    /\ calls' = calls + 1
    /\ \E k \in AlertKinds :
          appender' = [appender EXCEPT ![a] =
                         [NoCall EXCEPT
                            !.pc = "append", !.log = "alerts",
                            !.entry = AlertEntry(k.name, k.confidence),
                            !.mirror = << [type |-> "Missing Person",
                                           status |-> "suspicious",
                                           confidence |-> k.confidence] >>,
                            !.fresh = TRUE]]
    /\ UNCHANGED << logs, supervision, timing, appended, observed >>

\* "log.append(entry)"
DoAppend(a) ==
    LET c == appender[a]
    IN  /\ c.pc = "append"
        /\ SetLog(c, Append(LogOf(c), c.entry))
        /\ appended' = IF c.fresh
                       THEN [appended EXCEPT ![c.log] = Append(@, c.entry)]
                       ELSE appended
        /\ appender' = [appender EXCEPT ![a].pc = "check"]
        /\ UNCHANGED << supervision, timing, calls, observed >>

\* "if len(log) > MAX:"
DoCheck(a) ==
    LET c == appender[a]
    IN  /\ c.pc = "check"
        /\ appender' = [appender EXCEPT ![a] =
                           IF Len(LogOf(c)) > MaxOf(c)
                           THEN [c EXCEPT !.pc = "bound"]
                           ELSE Through(c)]
        /\ UNCHANGED << logs, supervision, timing, calls, appended, observed >>

\* "len(log) - MAX", the bound of the slice
DoBound(a) ==
    LET c == appender[a]
    IN  /\ c.pc = "bound"
        /\ appender' = [appender EXCEPT ![a].pc = "del",
                                        ![a].n = Len(LogOf(c)) - MaxOf(c)]
        /\ UNCHANGED << logs, supervision, timing, calls, appended, observed >>

\* "del log[: ...]"
DoDel(a) ==
    LET c == appender[a]
    IN  /\ c.pc = "del"
        /\ SetLog(c, DropFirst(LogOf(c), c.n))
        /\ appender' = [appender EXCEPT ![a] = Through(c)]
        /\ UNCHANGED << supervision, timing, calls, appended, observed >>

\* The value reset_suspicious_events and clear_missing_alerts send as
\* "count".
ResetCount(before) == 0

\* The calls at list l are no longer fresh.
Stale(l) ==
    [a \in Appenders |->
        IF appender[a].pc # "idle" /\ appender[a].log = l
        THEN [appender[a] EXCEPT !.fresh = FALSE] ELSE appender[a]]

\* POST /suspicious/reset
reset_suspicious_events ==
    /\ calls < MaxCalls
    /\ calls' = calls + 1
    /\ SUSPICIOUS_EVENTS' = << >>
    /\ observed' = [observed EXCEPT !.count = ResetCount(Len(SUSPICIOUS_EVENTS)),
                                    !.prior = Len(SUSPICIOUS_EVENTS)]
    /\ appended' = [appended EXCEPT !.events = << >>]
    /\ appender' = Stale("events")
    /\ UNCHANGED << MISSING_PERSON_ALERTS, supervision, timing >>

\* POST /api/missing/alerts/clear
clear_missing_alerts ==
    /\ calls < MaxCalls
    /\ calls' = calls + 1
    /\ MISSING_PERSON_ALERTS' = << >>
    /\ observed' = [observed EXCEPT !.count = ResetCount(Len(MISSING_PERSON_ALERTS)),
                                    !.prior = Len(MISSING_PERSON_ALERTS)]
    /\ appended' = [appended EXCEPT !.alerts = << >>]
    /\ appender' = Stale("alerts")
    /\ UNCHANGED << SUSPICIOUS_EVENTS, supervision, timing >>

\* GET /suspicious/events: the reader is sent the list as it is.
get_suspicious_events ==
    /\ calls < MaxCalls
    /\ calls' = calls + 1
    /\ observed' = [observed EXCEPT !.seen = Len(SUSPICIOUS_EVENTS),
                                    !.of = "events",
                                    !.reply = Reversed(SUSPICIOUS_EVENTS)]
    /\ UNCHANGED << logs, supervision, timing, appended, appender >>

\* GET /api/missing/alerts
get_missing_alerts ==
    /\ calls < MaxCalls
    /\ calls' = calls + 1
    /\ observed' = [observed EXCEPT !.seen = Len(MISSING_PERSON_ALERTS),
                                    !.of = "alerts",
                                    !.reply = Reversed(MISSING_PERSON_ALERTS)]
    /\ UNCHANGED << logs, supervision, timing, appended, appender >>

LogNext ==
    \/ \E a \in Appenders :
          \/ BeginEvent(a) \/ BeginAlert(a)
          \/ DoAppend(a) \/ DoCheck(a) \/ DoBound(a) \/ DoDel(a)
    \/ reset_suspicious_events \/ clear_missing_alerts
    \/ get_suspicious_events \/ get_missing_alerts

LogSpec == SeqInit /\ [][LogNext]_vars

\* --------------------------------------- the worker loops under the clock
\* The advances of the clock between two steps, in seconds.
Steps == {1, 9, 300}
\* top_prob, in thousandths.
Probs == {695, 700}
\* The distance recognizer.predict gives a face, in tenths.
Distances == {405, 1053, 1100}

\* What is left of a run's locals when the elapsed time is forgotten.
SinceEpoch(now, last) == now

\* "now - last_...": the time since the local was written.
Since(now, last) == now - last

\* label.lower() without the lowering.
KeepCase(label) == label

\* label.lower()
Lower(label) == LowerOf[label]

\* int(x) of the quotient num / den: towards zero.
IntOf(num, den) ==
    IF num >= 0 THEN num \div den ELSE -((-num) \div den)

\* "confidence = int(100 - distance)", the distance in tenths
Confidence(distance) == IntOf(100 * 10 - distance, 10)

\* videomae_label_to_status
videomae_label_to_status(label) ==
    IF Lower(label) \in {"fighting"} THEN "suspicious" ELSE "warning"

\* "if label.lower() == "normal" or top_prob < CONF_THRESHOLD": no event
Skipped(label, prob) == Lower(label) = "normal" \/ prob < CONF_THRESHOLD

\* The dedup checks of videomae_worker let the classification through.
Emits(run, label) ==
    /\ ~(Since(run.now, run.last_any_emit) < ANY_COOLDOWN)
    /\ Since(run.now, run.last_label_emit[label]) >= DEDUP_SEC

\* What a run committed: label and prob (confidence) as stored, at: the
\* time.time() the dedup maps were given, done: the clock at the commit.
Commit(run, label, prob) ==
    [pipe |-> run.pipe, run |-> run.id, label |-> label, prob |-> prob,
     at |-> run.now, done |-> clock]

\* time.time() advances.
Tick ==
    /\ ticks < MaxTicks
    /\ ticks' = ticks + 1
    /\ \E d \in Steps : clock' = clock + d
    /\ UNCHANGED << logs, supervision, calls, appended, appender, observed,
                    loop, commits >>

\* start(): a worker of pipeline p begins, its locals as initialised.  A run
\* of the clock follows the workers of one pipeline.
LoopStart(p) ==
    /\ ~loop.live
    /\ loop.pipe \in {"none", p}
    /\ loop.id < MaxRuns
    /\ loop' = [NoRun EXCEPT !.id = loop.id + 1, !.live = TRUE, !.pipe = p]
    /\ UNCHANGED << logs, supervision, calls, appended, appender, observed,
                    clock, ticks, commits >>

\* stop(): the worker finds the event set at its loop condition and ends.
LoopStop ==
    /\ loop.live
    /\ loop.pc = "top"
    /\ loop' = [NoRun EXCEPT !.id = loop.id, !.pipe = loop.pipe]
    /\ UNCHANGED << logs, supervision, calls, appended, appender, observed,
                    clock, ticks, commits >>

\* videomae_worker, loop top: "now = time.time()" and, when the clip
\* interval has passed, a clip is read.
LoopClip ==
    /\ loop.live /\ loop.pipe = "videomae" /\ loop.pc = "top"
    /\ Since(clock, loop.last_clip_time) >= CLIP_INTERVAL_SEC
    /\ \E got \in BOOLEAN :
          loop' = [loop EXCEPT !.now = clock, !.last_clip_time = clock,
                               !.pc = IF got THEN "infer" ELSE "top"]
    /\ UNCHANGED << logs, supervision, calls, appended, appender, observed,
                    clock, ticks, commits >>

\* Variant of the suppressed branches: the candidate restarts the windows.
Restarted(run, label) ==
    [run EXCEPT !.last_label_emit[label] = run.now, !.last_any_emit = run.now]

\* The branches of videomae_worker that end in "pass" (no event, overall
\* cooldown, label cooldown): the locals of the run stay as they are.
Suppressed(run, label) == run

\* videomae_worker, inference and dedup checks on the clip.
LoopClassify ==
    /\ loop.live /\ loop.pipe = "videomae" /\ loop.pc = "infer"
    /\ Len(commits) < MaxCommits
    /\ \E label \in Labels, prob \in Probs :
          IF ~Skipped(label, prob) /\ Emits(loop, label)
          THEN /\ SUSPICIOUS_EVENTS' =
                     add_event(SUSPICIOUS_EVENTS, label,
                               videomae_label_to_status(label),
                               IntOf(prob, 10))
               /\ commits' = Append(commits, Commit(loop, label, IntOf(prob, 10)))
               /\ loop' = [loop EXCEPT !.pc = "top",
                                       !.label = label, !.prob = prob,
                                       !.last_label_emit[label] = loop.now,
                                       !.last_any_emit = loop.now]
          ELSE /\ loop' = [Suppressed(loop, label) EXCEPT
                                       !.pc = "top",
                                       !.label = label, !.prob = prob]
               /\ UNCHANGED << SUSPICIOUS_EVENTS, commits >>
    /\ UNCHANGED << MISSING_PERSON_ALERTS, supervision, calls, appended,
                    appender, observed, clock, ticks >>

\* missing_person_worker, a processed frame with one face: match, confidence,
\* dedup and alert.
LoopMatch ==
    /\ loop.live /\ loop.pipe = "missing" /\ loop.pc = "top"
    /\ Len(commits) < MaxCommits
    /\ \E name \in Names, distance \in Distances :
          IF /\ distance < DISTANCE_THRESHOLD * 10
             /\ Since(clock, loop.last_person_emit[name]) >= PERSON_DEDUP_SEC
          THEN /\ MISSING_PERSON_ALERTS' =
                     AlertsAfter(MISSING_PERSON_ALERTS, name,
                                 Confidence(distance))
               /\ SUSPICIOUS_EVENTS' =
                     MirrorAfter(SUSPICIOUS_EVENTS, name, Confidence(distance))
               /\ commits' =
                     Append(commits,
                            Commit([loop EXCEPT !.now = clock], name,
                                   Confidence(distance)))
               /\ loop' = [loop EXCEPT !.now = clock, !.label = name,
                                       !.prob = distance,
                                       !.last_person_emit[name] = clock]
          ELSE /\ loop' = [loop EXCEPT !.label = name, !.prob = distance]
               /\ UNCHANGED << logs, commits >>
    /\ UNCHANGED << supervision, calls, appended, appender, observed, clock,
                    ticks >>

LoopNext ==
    \/ Tick
    \/ \E p \in Pipelines : LoopStart(p)
    \/ LoopStop
    \/ LoopClip
    \/ LoopClassify
    \/ LoopMatch

LoopSpec == InitLogs(0) /\ [][LoopNext]_vars

\* ------------------------------------------------- the batch analyses
\* The uploaded videos: frames read before cap.read() fails, CAP_PROP_FPS in
\* tenths (0: not reported), and the boxes the model may find in a sampled
\* frame (label as the model names it, conf in thousandths).
Boxes ==
    { [raw |-> "People", conf |-> 900],
      [raw |-> "VKnife", conf |-> 595],
      [raw |-> "VKnife", conf |-> 600] }
Scenes ==
    { [frames |-> 30, fps |-> 100, shows |-> {}],
      [frames |-> 3, fps |-> 5, shows |-> Boxes] }
Videos ==
    Scenes \cup { [frames |-> 0, fps |-> 0, shows |-> {}],
                  [frames |-> 31, fps |-> 0, shows |-> {}],
                  [frames |-> 302, fps |-> 3, shows |-> {}] }

\* clean_label: a leading V before a letter is removed.
clean_label(raw) ==
    [People |-> "People", VPeople |-> "People", VKnife |-> "Knife"][raw]

\* label_to_status
label_to_status(label) ==
    IF label \in {"Knife"} THEN "suspicious" ELSE "warning"

\* A sampler that takes every frame.
EveryFrame(op, fps) == 1

\* "sample_rate = max(1, int(fps * 2))", fps = CAP_PROP_FPS or the default
\* of the endpoint (1.0 in mob_detect, 15.0 in suspicious_detect).
sample_rate(op, fps) ==
    LET given == IF fps # 0 THEN fps ELSE IF op = "mob" THEN 10 ELSE 150
        twice == IntOf(given * 2, 10)
    IN  IF twice > 1 THEN twice ELSE 1

\* A batch analysis at its start: the locals of mob_detect /
\* suspicious_detect, and the reply it will send.
NewBatch(id, op, video) ==
    [id |-> id, live |-> TRUE, pipe |-> "batch", pc |-> "read", op |-> op,
     video |-> video, now |-> 0, label |-> "none", prob |-> 0,
     sample_idx |-> 0, frames_processed |-> 0,
     last_emit |-> [l \in {} |-> 0],
     frames_sampled |-> 0, latest_events |-> << >>]

\* POST /api/mob-detect or /api/suspicious-detect with an uploaded video that
\* opens and a model that loads.
BatchStart(op, video) ==
    /\ ~loop.live
    /\ loop.pipe \in {"none", "batch"}
    /\ loop.id < MaxRuns
    /\ loop' = NewBatch(loop.id + 1, op, video)
    /\ UNCHANGED << logs, supervision, calls, appended, appender, observed,
                    clock, ticks, commits >>

\* The break of the loop: cap.release() and the reply.
Replied(run) ==
    [run EXCEPT !.pc = "done",
                !.frames_sampled = run.frames_processed,
                !.latest_events =
                    IF run.op = "suspicious"
                    THEN FirstN(Reversed(SUSPICIOUS_EVENTS), 10)
                    ELSE << >>]

\* The end of a sampled frame: the cap on the samples, or the next frame.
AfterSample(run) ==
    IF run.frames_processed >= max_samples
    THEN Replied(run)
    ELSE [run EXCEPT !.pc = "read", !.sample_idx = run.sample_idx + 1]

\* One turn of "while True": cap.read(), and the frame is sampled or passed.
BatchRead ==
    /\ loop.live /\ loop.pipe = "batch" /\ loop.pc = "read"
    /\ loop' =
          IF loop.sample_idx >= loop.video.frames
          THEN Replied(loop)
          ELSE IF loop.sample_idx % sample_rate(loop.op, loop.video.fps) = 0
               THEN IF loop.op = "suspicious"
                    THEN [loop EXCEPT !.pc = "boxes",
                                      !.frames_processed = @ + 1]
                    ELSE AfterSample([loop EXCEPT !.frames_processed = @ + 1])
               ELSE [loop EXCEPT !.sample_idx = @ + 1]
    /\ UNCHANGED << logs, supervision, calls, appended, appender, observed,
                    clock, ticks, commits >>

\* suspicious_detect, one box of the sampled frame: the filters, the
\* cooldown of its label and the event.
BatchBox ==
    /\ loop.live /\ loop.pipe = "batch" /\ loop.pc = "boxes"
    /\ Len(commits) < MaxCommits
    /\ \E b \in loop.video.shows :
          LET label == clean_label(b.raw)
          IN  IF /\ ~(b.conf < CONF_TH)
                 /\ label # "People"
                 /\ ~( label \in DOMAIN loop.last_emit
                       /\ Since(clock, loop.last_emit[label]) < COOLDOWN_SEC )
              THEN /\ SUSPICIOUS_EVENTS' =
                         add_event(SUSPICIOUS_EVENTS, label,
                                   label_to_status(label), IntOf(b.conf, 10))
                   /\ commits' =
                         Append(commits,
                                Commit([loop EXCEPT !.now = clock], label,
                                       IntOf(b.conf, 10)))
                   /\ loop' =
                         [loop EXCEPT
                            !.now = clock, !.label = label, !.prob = b.conf,
                            !.last_emit =
                               [l \in DOMAIN loop.last_emit \cup {label} |->
                                  IF l = label THEN clock
                                  ELSE loop.last_emit[l]]]
              ELSE /\ loop' = [loop EXCEPT !.label = label, !.prob = b.conf]
                   /\ UNCHANGED << SUSPICIOUS_EVENTS, commits >>
    /\ UNCHANGED << MISSING_PERSON_ALERTS, supervision, calls, appended,
                    appender, observed, clock, ticks >>

\* suspicious_detect, the boxes of the sampled frame are through.
BatchBoxesDone ==
    /\ loop.live /\ loop.pipe = "batch" /\ loop.pc = "boxes"
    /\ loop' = AfterSample(loop)
    /\ UNCHANGED << logs, supervision, calls, appended, appender, observed,
                    clock, ticks, commits >>

\* The handler returns its reply.
BatchReturn ==
    /\ loop.live /\ loop.pipe = "batch" /\ loop.pc = "done"
    /\ loop' = [loop EXCEPT !.live = FALSE]
    /\ UNCHANGED << logs, supervision, calls, appended, appender, observed,
                    clock, ticks, commits >>

\* time.time() advances; the analyses read it at the boxes of a sampled
\* frame only, so it is let advance there.
BatchTick ==
    /\ loop.live /\ loop.pipe = "batch" /\ loop.pc = "boxes"
    /\ loop.video.shows # {}
    /\ Tick

BatchNext ==
    \/ BatchTick
    \/ \E op \in {"mob", "suspicious"}, video \in Scenes : BatchStart(op, video)
    \/ BatchRead
    \/ BatchBox
    \/ BatchBoxesDone
    \/ BatchReturn

BatchInit == \E n \in {9, MAX_EVENTS} : InitLogs(n)

BatchSpec == BatchInit /\ [][BatchNext]_vars

\* The three loops that keep cooldown windows, one run after the other under
\* one clock.
CooldownNext ==
    \/ Tick
    \/ \E p \in Pipelines : LoopStart(p)
    \/ LoopStop
    \/ LoopClip
    \/ LoopClassify
    \/ LoopMatch
    \/ \E video \in Scenes : BatchStart("suspicious", video)
    \/ BatchRead
    \/ BatchBox
    \/ BatchBoxesDone
    \/ BatchReturn

CooldownSpec == InitLogs(0) /\ [][CooldownNext]_vars

\* The queries of the logs: entries are added by calls one at a time, read by
\* the two GET endpoints and by the reply of a batch analysis.
RecentNext ==
    \/ CallAddEvent
    \/ CallAddAlert
    \/ get_suspicious_events
    \/ get_missing_alerts
    \/ \E video \in Scenes : BatchStart("suspicious", video)
    \/ BatchRead
    \/ BatchBoxesDone
    \/ BatchReturn

RecentSpec == BatchInit /\ [][RecentNext]_vars

\* The sampling loops alone, on videos of every length.
SamplerNext ==
    \/ \E op \in {"mob", "suspicious"}, video \in Videos : BatchStart(op, video)
    \/ BatchRead
    \/ BatchBoxesDone
    \/ BatchReturn

\* A handler thread that can take a step of its loop is scheduled.
SamplerSpec ==
    /\ InitLogs(0)
    /\ [][SamplerNext]_vars
    /\ WF_vars(BatchRead)
    /\ WF_vars(BatchBoxesDone)

\* --------------------------------------- trackers and rules of a frame
\* CentroidTracker and RuleEngine (spec sections 3, 4.1, 4.2).
PEOPLE_MATCH_PX == 90
OBJECT_MATCH_PX == 80
STALE_SEC == 10
MARGIN_PX == 40
RUN_PX_PER_SEC == 220
LOITER_SEC == 12
UNATTENDED_SEC == 12
CLOSE_PX == 80
ALTERCATION_FRAMES == 3
FRAME_WIDTH == 640
FRAME_HEIGHT == 480

\* Centroids of the detections of a frame.
Left == [x |-> 100, y |-> 100]
Near == [x |-> 150, y |-> 100]
Edge == [x |-> 620, y |-> 100]
Bag == [x |-> 300, y |-> 300]

\* The people and the flagged objects the detector finds in a frame, in its
\* order; the seconds between two processed frames.
PeopleFrames ==
    { << >>, << Near >>, << Near, Left >>, << Left, Edge >> }
ObjectFrames == { << >>, << Bag >> }
Gaps == {6, 12}

\* The square of the distance of two centroids.
DistSq(a, b) == (a.x - b.x) * (a.x - b.x) + (a.y - b.y) * (a.y - b.y)

\* Variant of the match: every track is near enough.
WithinAny(a, b, px) == TRUE

\* "centroid distance is below a match threshold"
Within(a, b, px) == DistSq(a, b) < px * px

\* A track as a detection at centroid c spawns it.
NewTrack(c, now) ==
    [position |-> c, previousPosition |-> c, startTime |-> now,
     lastSeenTime |-> now, running |-> FALSE, loitered |-> FALSE,
     flagged |-> FALSE]

\* The nearest of the candidate tracks; of equally near ones the first.
Nearest(tracks, cands, c) ==
    CHOOSE t \in cands :
        \A u \in cands :
            \/ DistSq(tracks[t].position, c) < DistSq(tracks[u].position, c)
            \/ /\ DistSq(tracks[t].position, c) = DistSq(tracks[u].position, c)
               /\ t <= u

\* update(), the assignment: the detections in their order, each to the
\* nearest unused track within the threshold, or to a new track.
RECURSIVE Assign(_, _, _, _, _, _)
Assign(tracks, used, issued, detections, now, px) ==
    IF detections = << >>
    THEN [tracks |-> tracks, issued |-> issued, ids |-> << >>]
    ELSE LET c == Head(detections)
             cands == {t \in DOMAIN tracks \ used :
                          Within(tracks[t].position, c, px)}
             id == IF cands # {} THEN Nearest(tracks, cands, c) ELSE issued + 1
             after == [t \in DOMAIN tracks \cup {id} |->
                         IF t # id THEN tracks[t]
                         ELSE IF cands = {} THEN NewTrack(c, now)
                         ELSE [tracks[t] EXCEPT
                                  !.previousPosition = tracks[t].position,
                                  !.position = c,
                                  !.lastSeenTime = now]]
             rest == Assign(after, used \cup {id},
                            IF cands = {} THEN issued + 1 ELSE issued,
                            Tail(detections), now, px)
         IN  [rest EXCEPT !.ids = << id >> \o rest.ids]

\* update(), the end: "every track not updated within the staleness timeout
\* is removed".
Kept(tracks, now) ==
    [t \in {u \in DOMAIN tracks : now - tracks[u].lastSeenTime <= STALE_SEC}
        |-> tracks[t]]

\* CentroidTracker.update(detections, now) -> assigned ids
update(tracker, detections, now, px) ==
    LET a == Assign(tracker.tracks, {}, tracker.issued, detections, now, px)
    IN  [tracks |-> Kept(a.tracks, now), issued |-> a.issued, ids |-> a.ids]

\* Perimeter breach: the track is within the margin of an edge of the frame.
AtPerimeter(t) ==
    \/ t.position.x < MARGIN_PX \/ t.position.x > FRAME_WIDTH - MARGIN_PX
    \/ t.position.y < MARGIN_PX \/ t.position.y > FRAME_HEIGHT - MARGIN_PX

\* Running: distance / elapsed > 220 px/s, the elapsed time floored at 0.5 s
\* (in tenths of a second, squared on both sides).
Runs(t, gap) ==
    LET tenths == IF 10 * gap < 5 THEN 5 ELSE 10 * gap
    IN  100 * DistSq(t.position, t.previousPosition)
            > RUN_PX_PER_SEC * RUN_PX_PER_SEC * tenths * tenths

\* Loitering and unattended object: the dwell since the start of the track.
Dwells(t, now, sec) == now - t.startTime >= sec

\* Altercation: a pair of people closer than 80 px.
ClosePair(tracks) ==
    \E t, u \in DOMAIN tracks :
        t # u /\ Within(tracks[t].position, tracks[u].position, CLOSE_PX)

\* Variant of the hysteresis: the counter is kept when it fires.
KeepCounter(counter) == counter

\* "fires and resets to 0 once counter reaches 3"
ResetCounter(counter) == 0

\* "increments on frames with >= 1 close pair, decrements (floor 0)
\* otherwise"
Counted(counter, close) ==
    IF close THEN counter + 1 ELSE IF counter > 0 THEN counter - 1 ELSE 0

\* Variant of the sticky flags: a track that fired fires again.
NeverSet(flag, fires) == flag

\* The sticky flag of a track after a frame.
Sticky(flag, fires) == flag \/ fires

\* n events of one heuristic appended to the log.
RECURSIVE Committed(_, _, _, _, _)
Committed(log, n, type, status, confidence) ==
    IF n = 0 THEN log
    ELSE Committed(add_event(log, type, status, confidence), n - 1,
                   type, status, confidence)

\* History: one more event of each of the tracks in ids.
Counts(was, ids) ==
    [t \in DOMAIN was \cup ids |->
        (IF t \in DOMAIN was THEN was[t] ELSE 0) + (IF t \in ids THEN 1 ELSE 0)]

\* One processed frame: the trackers are updated with the detections, then
\* the five heuristics run over the tracks and commit their events.
ProcessFrame(people, objects, gap) ==
    LET now == scene.now + gap
        p == update(scene.people, people, now, PEOPLE_MATCH_PX)
        o == update(scene.objects, objects, now, OBJECT_MATCH_PX)
        breach == {t \in DOMAIN p.tracks : AtPerimeter(p.tracks[t])}
        run == {t \in DOMAIN p.tracks :
                   Runs(p.tracks[t], gap) /\ ~p.tracks[t].running}
        loiter == {t \in DOMAIN p.tracks :
                      Dwells(p.tracks[t], now, LOITER_SEC) /\ ~p.tracks[t].loitered}
        left == {t \in DOMAIN o.tracks :
                    Dwells(o.tracks[t], now, UNATTENDED_SEC) /\ ~o.tracks[t].flagged}
        close == ClosePair(p.tracks)
        counted == Counted(scene.counter, close)
        fires == counted >= ALTERCATION_FRAMES
        counter == IF fires THEN ResetCounter(counted) ELSE counted
        e1 == Committed(SUSPICIOUS_EVENTS, Cardinality(breach),
                        "Perimeter breach", "warning", 60)
        e2 == Committed(e1, Cardinality(run), "Running", "suspicious", 85)
        e3 == Committed(e2, Cardinality(loiter), "Loitering", "suspicious", 80)
        e4 == Committed(e3, IF fires THEN 1 ELSE 0, "Altercation", "warning", 72)
        e5 == Committed(e4, Cardinality(left), "Unattended object", "suspicious", 70)
    IN  /\ SUSPICIOUS_EVENTS' = e5
        /\ scene' =
              [people |->
                 [tracks |-> [t \in DOMAIN p.tracks |->
                                [p.tracks[t] EXCEPT
                                    !.running = Sticky(@, t \in run),
                                    !.loitered = Sticky(@, t \in loiter)]],
                  issued |-> p.issued],
               objects |->
                 [tracks |-> [t \in DOMAIN o.tracks |->
                                [o.tracks[t] EXCEPT
                                    !.flagged = Sticky(@, t \in left)]],
                  issued |-> o.issued],
               counter |-> counter,
               now |-> now,
               frames |-> scene.frames + 1,
               last |-> [people |-> people, ids |-> p.ids,
                         before |-> scene.people.tracks,
                         issued |-> scene.people.issued],
               close |-> Append(scene.close, close),
               altercations |-> Append(scene.altercations, IF fires THEN 1 ELSE 0),
               counters |-> Append(scene.counters, counter),
               fired |-> [Running |-> Counts(scene.fired.Running, run),
                          Loitering |-> Counts(scene.fired.Loitering, loiter),
                          Unattended |-> Counts(scene.fired.Unattended, left)]]
        /\ UNCHANGED << globals, LOCK, videomae_model, MISSING_PERSON_ALERTS,
                        req, wk, served, pair, telling, transitions, calls,
                        appended, appender, observed, clock, ticks, loop,
                        commits, following, order, clip >>

\* The frames of a video, people and objects moving, staying and leaving.
TrackNext ==
    /\ scene.frames < MaxFrames
    /\ \E people \in PeopleFrames, objects \in ObjectFrames, gap \in Gaps :
          ProcessFrame(people, objects, gap)

TrackSpec == InitLogs(0) /\ [][TrackNext]_vars

\* Frames in which two people are close or one is alone; the track of the
\* one who left is there until it is stale.
CloseNext ==
    /\ scene.frames < MaxCloseFrames
    /\ \E people \in {<< Left, Near >>, << Left >>}, gap \in {1, 11} :
          ProcessFrame(people, << >>, gap)

CloseSpec == InitLogs(0) /\ [][CloseNext]_vars

\* ------------------------------------------------------ get_videomae_clip
\* The variables a call of get_videomae_clip leaves alone.
outside ==
    << globals, LOCK, videomae_model, logs, req, wk, served, pair, telling,
       transitions, calls, appended, appender, observed, timing, following,
       order, scene >>

\* Variant of the padding: a failed read adds nothing to the clip.
Dropped(frames, last_frame) == frames

\* "if last_frame is not None: frames.append(last_frame)"
Pad(frames, last_frame) == Append(frames, last_frame)

\* "while len(frames) < frame_count and last_frame is not None:
\*     frames.append(last_frame)"
Padded(frames, last_frame, n) ==
    IF Len(frames) < n /\ last_frame # None
    THEN frames \o [k \in 1..(n - Len(frames)) |-> last_frame]
    ELSE frames

\* A frame that cap.read() returned, converted and resized: it is told from
\* the others by the number of its read.
Taken(c) ==
    [c EXCEPT !.reads = @ + 1, !.i = @ + 1, !.pc = "read",
              !.frames = Append(@, c.reads + 1),
              !.last_frame = c.reads + 1]

\* get_videomae_clip(cap, frame_count=16) is called.
ClipCall ==
    /\ clip.pc = "none"
    /\ clip' = [clip EXCEPT !.pc = "read"]
    /\ UNCHANGED outside

\* One turn of "for _ in range(frame_count)": cap.read(); the frame is
\* taken, or the last frame stands in for it, or, with no frame so far,
\* the read is tried again.
ClipRead ==
    /\ clip.pc = "read" /\ clip.i < frame_count
    /\ \E ret \in BOOLEAN :
          clip' =
             IF ret
             THEN [Taken(clip) EXCEPT !.rets = Append(@, TRUE)]
             ELSE IF clip.last_frame # None
                  THEN [clip EXCEPT !.reads = @ + 1, !.i = @ + 1,
                                    !.rets = Append(@, FALSE),
                                    !.frames = Pad(@, clip.last_frame)]
                  ELSE [clip EXCEPT !.reads = @ + 1, !.pc = "retry",
                                    !.rets = Append(@, FALSE)]
    /\ UNCHANGED outside

\* "time.sleep(0.05); ret2, frame2 = cap.read()": the frame is taken, or
\* None is returned.
ClipRetry ==
    /\ clip.pc = "retry"
    /\ \E ret2 \in BOOLEAN :
          clip' =
             IF ret2
             THEN [Taken(clip) EXCEPT !.retry = "ok"]
             ELSE [clip EXCEPT !.reads = @ + 1, !.pc = "done",
                               !.retry = "failed", !.isNone = TRUE]
    /\ UNCHANGED outside

\* The loop is through: "Ensure exact length" and "return frames".
ClipReturn ==
    /\ clip.pc = "read" /\ clip.i = frame_count
    /\ clip' = [clip EXCEPT !.pc = "done",
                            !.frames = Padded(@, clip.last_frame, frame_count)]
    /\ UNCHANGED outside

ClipNext ==
    \/ ClipCall
    \/ ClipRead
    \/ ClipRetry
    \/ ClipReturn

ClipSpec == InitLogs(0) /\ [][ClipNext]_vars

\* --------------------------------------------------- missing_detect_image
\* The faces detectMultiScale finds in an uploaded image, each with the
\* person and the distance (in tenths) recognizer.predict gives it.
Shown == [name : Names, distance : {405, 999, 1000}]
Images == UNION { [1..n -> Shown] : n \in 0..MaxFaces }

\* Variant of the best-match test: the later match wins.
Latest(distance, best) == TRUE

\* "if distance < best_distance"
Closer(distance, best) == distance < best

\* "best_match = None", and detection_info of a match (bbox: the face).
NoMatch == [found |-> FALSE, name |-> "none", confidence |-> 0, bbox |-> 0]
detection_info(faces, k) ==
    [found |-> TRUE, name |-> faces[k].name,
     confidence |-> Confidence(faces[k].distance), bbox |-> k]

\* "for (x, y, w, h) in faces": from face k on, with the best match and
\* its distance so far.
RECURSIVE Analysed(_, _, _, _)
Analysed(faces, k, match, best) ==
    IF k > Len(faces) THEN match
    ELSE IF /\ faces[k].distance < IMAGE_DISTANCE_THRESHOLD * 10
            /\ Closer(faces[k].distance, best)
         THEN Analysed(faces, k + 1, detection_info(faces, k), faces[k].distance)
         ELSE Analysed(faces, k + 1, match, best)

\* A call of the endpoint: the image, whether a model was trained, the
\* reply, and the lengths of the logs when it came in.
ImageCall(id, faces, trained, match) ==
    [id |-> id, live |-> FALSE, pipe |-> "image", pc |-> "done", now |-> clock,
     faces |-> faces, trained |-> trained, best_match |-> match,
     alerts |-> Len(MISSING_PERSON_ALERTS), events |-> Len(SUSPICIOUS_EVENTS)]

\* POST /api/missing/detect-image with a readable image: without a trained
\* model the reply is 400; else the faces are analysed and the best match,
\* if there is one, is committed as an alert.
missing_detect_image ==
    /\ loop.pipe \in {"none", "image"}
    /\ loop.id < MaxRuns
    /\ \E faces \in Images, trained \in BOOLEAN :
          LET match == IF trained
                       THEN Analysed(faces, 1, NoMatch, best_distance * 10)
                       ELSE NoMatch
              call == ImageCall(loop.id + 1, faces, trained, match)
          IN  /\ loop' = call
              /\ IF match.found
                 THEN /\ MISSING_PERSON_ALERTS' =
                            AlertsAfter(MISSING_PERSON_ALERTS, match.name,
                                        match.confidence)
                      /\ SUSPICIOUS_EVENTS' =
                            MirrorAfter(SUSPICIOUS_EVENTS, match.name,
                                        match.confidence)
                      /\ commits' =
                            Append(commits,
                                   Commit(call, match.name, match.confidence))
                 ELSE UNCHANGED << logs, commits >>
    /\ UNCHANGED << supervision, calls, appended, appender, observed, clock,
                    ticks >>

ImageNext ==
    \/ Tick
    \/ missing_detect_image

ImageSpec == InitLogs(0) /\ [][ImageNext]_vars

\* ------------------------------------------------------------- properties
\* C1: in every reachable state, whatever the interleaving of start requests,
\* stop requests (the join of which may time out) and worker steps, at most
\* one worker thread of a pipeline is alive inside its detection loop.
OneWorkerInLoop ==
    \A p \in Pipelines :
        Cardinality({w \in LiveWorkersOf(p) : InLoop(w)}) <= 1

\* C2: every worker that is alive when a stop() raises the stop event of its
\* pipeline eventually ends, whatever requests follow (fair scheduling,
\* every blocking call returns).
StoppedWorkersEnd ==
    \A t \in 1..MaxWorkers :
        (\E w \in Workers : wk[w].told = t) ~> (\A w \in Workers : wk[w].told # t)

\* C3 as stated: of two start requests that arrive together at an idle
\* pipeline exactly one launches a worker, the other is a no-op.
OneOfTwoStartsLaunches == \A p \in Pipelines : pair[p] # "both"

\* C3, amended: the start requests take the lock one after the other; the
\* running flag is raised at most once between two resets to false; the
\* second of two starts that arrived together is a no-op reporting "already
\* running" when it finds the flag true, and goes on to start a worker of its
\* own only when the flag is false again (or was never raised).
StartsRaiseOnce ==
    /\ [](\A p \in Pipelines : transitions[p] <= 1)
    /\ [][\A p \in Pipelines :
            (pair[p] = "one" /\ pair'[p] = "second") =>
                IF RUNNING[p]
                THEN req'[p].res = "already" /\ UNCHANGED << globals, wk >>
                ELSE req'[p].pc = "validate"]_vars

SecondStartIsNoop ==
    \E p \in Pipelines :
        /\ pair[p] = "second" /\ req[p].member /\ req[p].res = "already"
        /\ RUNNING[p] /\ transitions[p] = 1

\* C4: start() on a running pipeline spawns no worker and leaves the running
\* flag, source, video path, thread handle and stop event as they are; it
\* never reads the body of the request.
StartOnRunningIsNoop ==
    [][\A p \in Pipelines :
          /\ (req[p].pc = "none" /\ req'[p].op = "start" /\ RUNNING[p]) =>
                /\ req'[p].pc = "reply" /\ req'[p].res = "already"
                /\ UNCHANGED << globals, wk >>
          /\ (req[p].res = "already" /\ req'[p] # req[p]) =>
                /\ req'[p] = NoHandler
                /\ UNCHANGED << globals, wk >>]_vars

StartFoundRunning ==
    \E p \in Pipelines :
        /\ req[p].op = "start" /\ req[p].res = "already"
        /\ SOURCE[p] = "video" /\ LiveWorkersOf(p) # {}

\* C5: stop() on an idle pipeline answers running=false, does not raise the
\* stop event and leaves running flag, source, video path and thread handle
\* as they are.
StopOnIdleIsNoop ==
    [][\A p \in Pipelines :
          /\ (req[p].pc = "none" /\ req'[p].op = "stop" /\ ~RUNNING[p]) =>
                /\ req'[p].pc = "reply" /\ req'[p].res = "noop"
                /\ UNCHANGED << globals, wk >>
          /\ (req[p].res = "noop" /\ req'[p] # req[p]) =>
                /\ req'[p] = NoHandler
                /\ UNCHANGED << globals, wk >>]_vars

StopFoundIdle ==
    \E p \in Pipelines :
        req[p].op = "stop" /\ req[p].res = "noop" /\ ~STOP_EVENT[p]

\* C6: a start() on an idle pipeline whose source kind is neither webcam nor
\* video, or is video with the path absent or no file, is rejected by the
\* handler itself: no worker is created, the running flag stays false, the
\* stop event is not touched.
BadSourceIsRejected ==
    /\ [](\A p \in Pipelines : req[p].pc = "validate" => ~RUNNING[p])
    /\ [][\A p \in Pipelines :
            ( /\ req[p].pc = "validate" /\ req'[p].pc # "validate"
              /\ \/ SourceOf(p, req'[p].body) \notin {"webcam", "video"}
                 \/ /\ SourceOf(p, req'[p].body) = "video"
                    /\ req'[p].body.path \in {"none", "nofile"} ) =>
                /\ req'[p].pc = "reply"
                /\ req'[p].res \in {"bad_source", "no_path", "not_found"}
                /\ UNCHANGED << globals, wk >>]_vars
    /\ [][\A p \in Pipelines :
            ( /\ req[p].res \in {"bad_source", "no_path", "not_found"}
              /\ req'[p] # req[p] ) =>
                /\ req'[p] = NoHandler
                /\ UNCHANGED << globals, wk >>]_vars

StartRejected ==
    \E p \in Pipelines :
        /\ req[p].res = "not_found" /\ req[p].body.path = "nofile"
        /\ ~RUNNING[p] /\ LiveWorkersOf(p) = {}

\* C7: stop() on a running pipeline raises the stop event and has the running
\* flag false when it returns, whether the worker ended within the join or
\* not; the flag becomes true again only by a start() that goes through.
StopLeavesIdle ==
    /\ [][\A p \in Pipelines :
            (req[p].pc = "set" /\ req'[p].pc # "set") => STOP_EVENT'[p]]_vars
    /\ [](\A p \in Pipelines :
            (req[p].op = "stop" /\ (req[p].pc = "join" \/ req[p].res = "stopped"))
                => ~RUNNING[p])
    /\ [][\A p \in Pipelines :
            (~RUNNING[p] /\ RUNNING'[p]) =>
                req[p].op = "start" /\ req[p].pc = "run"]_vars

StoppedWithoutJoin ==
    \E p \in Pipelines :
        /\ req[p].res = "stopped" /\ ~req[p].joined
        /\ ~RUNNING[p] /\ LiveWorkersOf(p) # {}

\* C8: a worker that has opened its capture releases it exactly once before
\* it ends, on every way out of the loop; no worker ends with an open
\* capture, none releases twice.
CaptureReleasedOnce ==
    /\ [](\A w \in Workers :
            /\ wk[w].rel <= 1
            /\ wk[w].pc \in {"free", "init"} => wk[w].cap = "none"
            /\ wk[w].pc \in {"loop", "proc", "except", "finally"} =>
                  wk[w].cap = "open" /\ wk[w].rel = 0
            /\ wk[w].pc = "exit" => wk[w].cap = "released" /\ wk[w].rel = 1)
    /\ [][\A w \in Workers :
            (Alive(w) /\ wk' = WorkersAfterEnd(w)) => wk[w].cap # "open"]_vars

WorkerReleased ==
    \E w \in Workers :
        wk[w].pc = "exit" /\ wk[w].cap = "released" /\ wk[w].rel = 1

\* C9: a worker that hits a resource fault before its loop commits exactly
\* one Error event, has processed no sample, ends at once, and the running
\* flag of its pipeline is false.
FaultEndsWorker ==
    /\ [](\A w \in Workers :
            wk[w].pc = "init" => wk[w].items = 0 /\ ~wk[w].committed)
    /\ [][\A w \in Workers :
            (wk[w].pc = "init" /\ wk' = WorkersAfterEnd(w)) =>
                /\ SUSPICIOUS_EVENTS' =
                      Append(SUSPICIOUS_EVENTS,
                             [type |-> "Error", status |-> "warning",
                              confidence |-> 60])
                /\ UNCHANGED MISSING_PERSON_ALERTS
                /\ ~RUNNING'[wk[w].pipe]]_vars

WorkerFaulted ==
    \E p \in Pipelines :
        /\ THREAD[p] = Ended /\ ~RUNNING[p] /\ LiveWorkersOf(p) = {}
        /\ Len(SUSPICIOUS_EVENTS) > 0
        /\ SUSPICIOUS_EVENTS[Len(SUSPICIOUS_EVENTS)].type = "Error"

\* C10 as stated: a transient fault on a sample leaves the worker alive and
\* the running flag as it is, no event or alert is committed for the sample,
\* and the loop goes on to the next sample.
TransientFaultCommitsNothing ==
    /\ [][\A w \in Workers :
            ( /\ \A v \in Workers \ {w} : wk'[v] = wk[v]
              /\ wk[w].pc \in {"loop", "proc"} /\ wk'[w].pc = "except" ) =>
                /\ UNCHANGED << RUNNING, logs >>
                /\ ~wk[w].committed]_vars
    /\ [][\A w \in Workers :
            ( /\ \A v \in Workers \ {w} : wk'[v] = wk[v]
              /\ wk[w].pc = "except" /\ wk'[w] # wk[w] ) =>
                wk'[w].pc = "loop"]_vars

\* C10, amended: a transient fault on a sample leaves the worker alive and
\* the running flag as it is, the faulting step commits nothing, and the
\* loop goes on to the next sample; alerts committed for earlier faces of
\* the same frame stay.
TransientFaultGoesOn ==
    /\ [][\A w \in Workers :
            ( /\ \A v \in Workers \ {w} : wk'[v] = wk[v]
              /\ wk[w].pc \in {"loop", "proc"} /\ wk'[w].pc = "except" ) =>
                UNCHANGED << RUNNING, logs >>]_vars
    /\ [][\A w \in Workers :
            ( /\ \A v \in Workers \ {w} : wk'[v] = wk[v]
              /\ wk[w].pc = "except" /\ wk'[w] # wk[w] ) =>
                wk'[w].pc = "loop"]_vars

FaultAfterAlert ==
    \E w \in Workers :
        /\ wk[w].pc = "except" /\ wk[w].committed
        /\ wk[w].pipe = "missing" /\ RUNNING["missing"]
        /\ Len(MISSING_PERSON_ALERTS) > 0

\* C11: after k calls executed one at a time, with no reset, each log holds
\* exactly the last min(k, 200) entries appended to it, in the order of
\* their appends: never more than its capacity, the oldest evicted first.
LogHoldsLastAppended ==
    LET last(s, n) == SubSeq(s, Len(s) - n + 1, Len(s))
        min(a, b) == IF a < b THEN a ELSE b
    IN  /\ Len(SUSPICIOUS_EVENTS) <= 200
        /\ Len(MISSING_PERSON_ALERTS) <= 200
        /\ SUSPICIOUS_EVENTS =
              last(appended.events, min(Len(appended.events), 200))
        /\ MISSING_PERSON_ALERTS =
              last(appended.alerts, min(Len(appended.alerts), 200))

OldestEvicted ==
    /\ calls = MaxCalls
    /\ Len(appended.events) > 200 /\ Len(SUSPICIOUS_EVENTS) = 200
    /\ Len(appended.alerts) > 200 /\ Len(MISSING_PERSON_ALERTS) = 200
    /\ SUSPICIOUS_EVENTS[1] # appended.events[1]

\* C12: with appends, reads and resets interleaved no update is lost: an
\* entry appended by a call that began after the latest reset of its log is
\* in the log, unless at least 200 entries were appended after it.
NoUpdateLost ==
    LET min(a, b) == IF a < b THEN a ELSE b
        kept(log, trail) ==
            /\ Len(log) >= min(Len(trail), 200)
            /\ \A i \in (Len(trail) - min(Len(trail), 200) + 1)..Len(trail) :
                  \E j \in 1..Len(log) : log[j] = trail[i]
    IN  /\ kept(SUSPICIOUS_EVENTS, appended.events)
        /\ kept(MISSING_PERSON_ALERTS, appended.alerts)

\* C13: in every state, the states between the steps of interleaved appends
\* included, each log holds at most 200 entries, and no reader is sent more.
LogsWithinCapacity ==
    /\ Len(SUSPICIOUS_EVENTS) <= 200
    /\ Len(MISSING_PERSON_ALERTS) <= 200
    /\ observed.seen <= 200

\* C14: a reset of the event log or of the alert log empties the log and
\* answers with the number of entries the log held just before.
ResetReturnsPriorCount ==
    observed.count = observed.prior

\* C15: every event and every alert stored in the logs has a confidence
\* within 0..100, whatever the pipelines were given: a face of the
\* continuous loop at a distance between 100 and 110 included.
ConfidenceInRange ==
    /\ \A i \in 1..Len(SUSPICIOUS_EVENTS) :
          SUSPICIOUS_EVENTS[i].confidence \in 0..100
    /\ \A i \in 1..Len(MISSING_PERSON_ALERTS) :
          MISSING_PERSON_ALERTS[i].confidence \in 0..100

\* C16: each call that appends an alert to the alert log appends exactly one
\* event to the event log, of status suspicious and of the same confidence;
\* as long as nothing was evicted or reset the mirror events are as many as
\* the alerts.
AlertMirrorsItself ==
    /\ [][MISSING_PERSON_ALERTS' # MISSING_PERSON_ALERTS =>
            /\ Len(SUSPICIOUS_EVENTS') > 0
            /\ SUSPICIOUS_EVENTS'[Len(SUSPICIOUS_EVENTS')].type = "Missing Person"
            /\ SUSPICIOUS_EVENTS'[Len(SUSPICIOUS_EVENTS')].status = "suspicious"
            /\ SUSPICIOUS_EVENTS'[Len(SUSPICIOUS_EVENTS')].confidence =
                  MISSING_PERSON_ALERTS'[Len(MISSING_PERSON_ALERTS')].confidence
            /\ \/ SUSPICIOUS_EVENTS' =
                     Append(SUSPICIOUS_EVENTS,
                            SUSPICIOUS_EVENTS'[Len(SUSPICIOUS_EVENTS')])
               \/ /\ Len(SUSPICIOUS_EVENTS) = 200
                  /\ SUSPICIOUS_EVENTS' =
                        Append(Tail(SUSPICIOUS_EVENTS),
                               SUSPICIOUS_EVENTS'[Len(SUSPICIOUS_EVENTS')])]_vars
    /\ []( (Len(appended.events) <= 200 /\ Len(appended.alerts) <= 200) =>
             Cardinality({i \in 1..Len(SUSPICIOUS_EVENTS) :
                            SUSPICIOUS_EVENTS[i].type = "Missing Person"})
               = Len(MISSING_PERSON_ALERTS) )

AlertMirrored ==
    /\ calls > 0
    /\ Len(MISSING_PERSON_ALERTS) > 0 /\ Len(SUSPICIOUS_EVENTS) > 0
    /\ MISSING_PERSON_ALERTS[Len(MISSING_PERSON_ALERTS)].name = "Asha"
    /\ SUSPICIOUS_EVENTS[Len(SUSPICIOUS_EVENTS)].type = "Missing Person"
    /\ SUSPICIOUS_EVENTS[Len(SUSPICIOUS_EVENTS)].confidence = 97

\* C17: of two classifications with the same label that pass the filters of
\* the activity pipeline, the second is not committed when it is sampled
\* less than 10 s after the first was committed, and is committed when it
\* is sampled more than 10 s after.
SameLabelOncePerWindow ==
    /\ [](\A i, j \in 1..Len(commits) :
            ( /\ i < j
              /\ commits[i].pipe = "videomae" /\ commits[j].pipe = "videomae"
              /\ commits[i].label = commits[j].label ) =>
                ~(commits[j].at - commits[i].done < 10))
    /\ [][( /\ loop.pipe = "videomae" /\ loop.pc = "infer"
            /\ loop'.pc = "top" /\ loop'.id = loop.id
            /\ loop'.label \in {"Fighting", "Walking"} /\ loop'.prob >= 700
            /\ \A i \in 1..Len(commits) :
                  ( commits[i].pipe = "videomae"
                    /\ commits[i].label = loop'.label ) =>
                      loop.now - commits[i].done > 10 ) =>
                commits' = Append(commits,
                                  [pipe |-> "videomae", run |-> loop.id,
                                   label |-> loop'.label,
                                   prob |-> loop'.prob \div 10,
                                   at |-> loop.now, done |-> clock])]_vars

\* C18: any two events committed by one run of the activity worker, whatever
\* their labels, were sampled at least 2 s apart.
CommitsTwoSecondsApart ==
    \A i, j \in 1..Len(commits) :
        ( /\ i < j
          /\ commits[i].pipe = "videomae" /\ commits[j].pipe = "videomae"
          /\ commits[i].run = commits[j].run ) =>
            commits[j].at - commits[i].at >= 2

CommittedTwiceInRun ==
    /\ Len(commits) = 2
    /\ commits[1].pipe = "videomae" /\ commits[1].run = commits[2].run
    /\ commits[1].label = "Fighting" /\ commits[2].label = "Walking"
    /\ commits[2].at = commits[1].at + 2

\* C19: the activity worker commits no event for a classification of
\* probability below 0.70, nor for the label "normal" in any letter case,
\* whatever its cooldown maps hold.
FilteredNeverCommitted ==
    /\ [](\A i \in 1..Len(commits) :
            commits[i].pipe = "videomae" =>
                /\ commits[i].prob >= 70
                /\ commits[i].label \notin {"normal", "Normal", "NORMAL"})
    /\ [][( /\ loop.pipe = "videomae" /\ loop.pc = "infer"
            /\ loop'.pc = "top" /\ loop'.id = loop.id
            /\ \/ loop'.prob < 700
               \/ loop'.label \in {"normal", "Normal", "NORMAL"} ) =>
                /\ commits' = commits
                /\ SUSPICIOUS_EVENTS' = SUSPICIOUS_EVENTS]_vars

NormalSeenAndLeft ==
    /\ loop.live /\ loop.pipe = "videomae" /\ loop.pc = "top"
    /\ loop.label = "Normal" /\ loop.prob = 700
    /\ loop.last_any_emit = 0
    /\ \A l \in Labels : loop.last_label_emit[l] = 0
    /\ commits = << >>

\* C20: whatever starts, stops and worker steps of the identity-matching
\* pipeline, two alerts it commits for the same identity are at least 300 s
\* apart.
PersonAlertsFiveMinutesApart ==
    \A i, j \in 1..Len(commits) :
        ( /\ i < j
          /\ commits[i].pipe = "missing" /\ commits[j].pipe = "missing"
          /\ commits[i].label = commits[j].label ) =>
            commits[j].at - commits[i].at >= 300

\* C21: over one batch analysis or several, two events they commit with the
\* same label are at least 30 s apart, no event is committed for a box of
\* confidence below 0.60, and none for the label "People".
BatchEventsApart ==
    /\ \A i \in 1..Len(commits) :
          commits[i].pipe = "batch" =>
              commits[i].prob >= 60 /\ commits[i].label # "People"
    /\ \A i, j \in 1..Len(commits) :
          ( /\ i < j
            /\ commits[i].pipe = "batch" /\ commits[j].pipe = "batch"
            /\ commits[i].label = commits[j].label ) =>
              commits[j].at - commits[i].at >= 30

\* C22: the queries answer most recent first: GET /suspicious/events and
\* GET /api/missing/alerts answer with the log in the exact reverse of the
\* order of insertion, and a batch analysis answers with the 10 events added
\* last (all of them when there are fewer), in that order.
RecentIsNewestFirst ==
    /\ [][( calls' = calls + 1 /\ observed'.of = "events"
            /\ SUSPICIOUS_EVENTS' = SUSPICIOUS_EVENTS
            /\ MISSING_PERSON_ALERTS' = MISSING_PERSON_ALERTS ) =>
                /\ Len(observed'.reply) = Len(SUSPICIOUS_EVENTS)
                /\ \A i \in 1..Len(observed'.reply) :
                      observed'.reply[i] =
                          appended.events[Len(appended.events) + 1 - i]]_vars
    /\ [][( calls' = calls + 1 /\ observed'.of = "alerts"
            /\ SUSPICIOUS_EVENTS' = SUSPICIOUS_EVENTS
            /\ MISSING_PERSON_ALERTS' = MISSING_PERSON_ALERTS ) =>
                /\ Len(observed'.reply) = Len(MISSING_PERSON_ALERTS)
                /\ \A i \in 1..Len(observed'.reply) :
                      observed'.reply[i] =
                          appended.alerts[Len(appended.alerts) + 1 - i]]_vars
    /\ [][( loop.pipe = "batch" /\ loop.pc # "done" /\ loop'.pc = "done" ) =>
                /\ Len(loop'.latest_events) =
                      IF Len(SUSPICIOUS_EVENTS) < 10
                      THEN Len(SUSPICIOUS_EVENTS) ELSE 10
                /\ \A i \in 1..Len(loop'.latest_events) :
                      loop'.latest_events[i] =
                          appended.events[Len(appended.events) + 1 - i]]_vars

NewestAnsweredFirst ==
    /\ observed.of = "events" /\ Len(observed.reply) = 200
    /\ observed.reply[1].type = "Fighting"
    /\ observed.reply[2].type = "Error"
    /\ loop.pipe = "batch" /\ loop.pc = "done"
    /\ Len(loop.latest_events) = 10
    /\ loop.latest_events[1].type = "Fighting"
    /\ loop.latest_events[2].type = "Error"

\* C24: a batch analysis samples exactly the frames whose index is a
\* multiple of max(1, int(2 * fps)): a stream of N frames gives
\* min(300, ceil(N / max(1, int(2 * fps)))) samples, 2 for 30 frames at
\* 10 fps, and the sampling loop ends.
FramesSampled ==
    /\ []( (loop.pipe = "batch" /\ loop.pc = "done") =>
             LET fps == IF loop.video.fps # 0 THEN loop.video.fps
                        ELSE IF loop.op = "mob" THEN 10 ELSE 150
                 rate == IF (2 * fps) \div 10 > 1 THEN (2 * fps) \div 10 ELSE 1
                 all == (loop.video.frames + rate - 1) \div rate
             IN  /\ loop.frames_sampled = IF all < 300 THEN all ELSE 300
                 /\ (loop.video.frames = 30 /\ loop.video.fps = 100) =>
                        loop.frames_sampled = 2 )
    /\ [][( loop.pipe = "batch" /\ loop.pc = "read" /\ loop'.id = loop.id ) =>
             LET fps == IF loop.video.fps # 0 THEN loop.video.fps
                        ELSE IF loop.op = "mob" THEN 10 ELSE 150
                 rate == IF (2 * fps) \div 10 > 1 THEN (2 * fps) \div 10 ELSE 1
             IN  ( loop'.frames_processed = loop.frames_processed + 1 ) <=>
                 ( /\ loop.sample_idx < loop.video.frames
                   /\ loop.sample_idx % rate = 0 )]_vars
    /\ ( (loop.live /\ loop.pipe = "batch") ~>
            (loop.pipe = "batch" /\ loop.pc = "done") )

SmokeClipSampledTwice ==
    /\ loop.pipe = "batch" /\ loop.pc = "done" /\ loop.op = "mob"
    /\ loop.video.frames = 30 /\ loop.video.fps = 100
    /\ loop.sample_idx = 30
    /\ loop.frames_sampled = 2

\* C29: the finally block of a worker that a later start() has superseded
\* (the pipeline's thread handle is another, live worker) leaves the
\* pipeline's stop event and running flag as they are.
StaleExitKeepsFlags ==
    [][\A w \in Workers :
          ( /\ ThreadAlive(wk[w].pipe)
            /\ THREAD[wk[w].pipe] # w
            /\ \/ /\ wk[w].pc = "finally"
                  /\ wk'[w].pc = "exit"
                  /\ \A v \in Workers \ {w} : wk'[v] = wk[v]
               \/ /\ wk[w].pc = "exit"
                  /\ wk' = WorkersAfterEnd(w) )
          => /\ STOP_EVENT' = STOP_EVENT
             /\ RUNNING' = RUNNING]_vars

\* C30: a worker on a video file (the one the run follows) does not stay
\* in its loop: it reaches the end of the stream (or leaves earlier),
\* its finally block releases the capture and its last step sets the
\* pipeline to not running, and the thread ends.  A worker on
\* the webcam leaves its loop only when cancelled or on an exception: a
\* failed read does not end it.
VideoWorkerEnds ==
    /\ (\E w \in Workers : wk[w].watched) ~> (\A w \in Workers : ~wk[w].watched)
    /\ [][\A w \in Workers :
            ( wk[w].pc = "exit" /\ wk' = WorkersAfterEnd(w) )
            => /\ wk[w].cap \in {"none", "released"}
               /\ ~RUNNING'[wk[w].pipe]]_vars
    /\ [][\A w \in Workers :
            ( /\ wk[w].pc = "loop"
              /\ wk[w].source = "webcam"
              /\ wk'[w].pc = "finally"
              /\ \A v \in Workers \ {w} : wk'[v] = wk[v] )
            => wk'[w].why = IF STOP_EVENT[wk[w].pipe] THEN "cancel"
                            ELSE "fatal"]_vars

\* The followed video worker has left its loop at the end of the stream and
\* released the capture, while a webcam worker whose read
\* failed is in its loop.
VideoEndedWebcamRetries ==
    \E v, w \in Workers :
        /\ wk[v].pc = "exit" /\ wk[v].why = "eof" /\ wk[v].watched
        /\ wk[v].cap = "released"
        /\ wk[w].pc = "loop" /\ wk[w].retried /\ wk[w].source = "webcam"

\* C23: the events a pipeline commits for its samples are in the log in the
\* order of the samples: an event of an earlier sample precedes every event
\* of a later sample.
EventsInSampleOrder ==
    /\ Len(order.logged) <= Len(SUSPICIOUS_EVENTS)
    /\ \A a, b \in DOMAIN order.logged :
          a < b => order.logged[a] <= order.logged[b]

\* C25: a step of a handler or worker of one pipeline leaves the running
\* flag, the source, the video path, the stop event and the thread of the
\* other pipeline as they are.
PipelinesIndependent ==
    [][\A p \in Pipelines : \A q \in Pipelines \ {p} :
          ( /\ req'[q] = req[q]
            /\ \/ req'[p] # req[p]
               \/ \E w \in Workers :
                     /\ wk[w].pipe = p
                     /\ Alive(w)
                     /\ \/ /\ wk'[w] # wk[w]
                           /\ \A v \in Workers \ {w} : wk'[v] = wk[v]
                        \/ wk' = WorkersAfterEnd(w) )
          => /\ RUNNING'[q] = RUNNING[q]
             /\ SOURCE'[q] = SOURCE[q]
             /\ VIDEO_PATH'[q] = VIDEO_PATH[q]
             /\ STOP_EVENT'[q] = STOP_EVENT[q]
             /\ ThreadAlive(q)' = ThreadAlive(q)
             /\ (THREAD[q] = None) <=> (THREAD'[q] = None)
             /\ ThreadAlive(q) => wk'[THREAD'[q]] = wk[THREAD[q]]]_vars

\* Both pipelines are running, each with its worker in its loop.
BothRunning ==
    /\ \A p \in Pipelines : RUNNING[p] /\ ThreadAlive(p)
    /\ \A p \in Pipelines : \E w \in LiveWorkersOf(p) : InLoop(w) /\ THREAD[p] = w

\* C26: in every update of the people tracker, a detection within the match
\* threshold of the last centroid of a track that no earlier detection of
\* the frame has taken is given the id of such a track, the nearest, and the
\* track is then at the detection; a detection beyond the threshold of all
\* of them is given an id greater than every id the tracker gave before.
TrackerKeepsIds ==
    \A i \in DOMAIN scene.last.people :
        LET c == scene.last.people[i]
            ids == scene.last.ids
            before == scene.last.before
            used == {ids[j] : j \in 1..(i - 1)}
            cands == {t \in DOMAIN before \ used :
                         DistSq(before[t].position, c)
                             < PEOPLE_MATCH_PX * PEOPLE_MATCH_PX}
        IN  /\ Len(ids) = Len(scene.last.people)
            /\ ids[i] \in DOMAIN scene.people.tracks
            /\ scene.people.tracks[ids[i]].position = c
            /\ IF cands # {}
               THEN /\ ids[i] \in cands
                    /\ \A u \in cands :
                          DistSq(before[ids[i]].position, c)
                              <= DistSq(before[u].position, c)
               ELSE /\ ids[i] > scene.last.issued
                    /\ ids[i] \notin DOMAIN before
                    /\ \A j \in 1..(i - 1) : ids[i] > ids[j]

\* A frame in which a person who moved 50 px keeps the id and a person far
\* from every track gets a new one.
IdKeptAndIdIssued ==
    /\ scene.frames >= 2
    /\ scene.last.people = << Left, Edge >>
    /\ scene.last.ids = << 1, 2 >>
    /\ DOMAIN scene.last.before = {1}
    /\ scene.last.before[1].position = Near

\* C27 as stated: the counter is never negative, and whenever three frames
\* in a row have a close pair (the frame before them has none), one
\* altercation event is committed, with the third, the counter is 0 after
\* it, and a fourth close frame commits none.
ThirdCloseFrameFires ==
    /\ scene.counter >= 0
    /\ \A i \in DOMAIN scene.close :
          ( /\ i + 2 <= Len(scene.close)
            /\ i = 1 \/ ~scene.close[i - 1]
            /\ scene.close[i] /\ scene.close[i + 1] /\ scene.close[i + 2] )
          => /\ scene.altercations[i] = 0
             /\ scene.altercations[i + 1] = 0
             /\ scene.altercations[i + 2] = 1
             /\ scene.counters[i + 2] = 0
             /\ ( i + 3 <= Len(scene.close) /\ scene.close[i + 3] )
                   => scene.altercations[i + 3] = 0

\* C27, amended: the counter is never negative, and whenever three frames in
\* a row have a close pair and the counter was 0 before them, one
\* altercation event is committed, with the third, the counter is 0 after
\* it, and a fourth close frame commits none.
ThirdCloseFrameFromZeroFires ==
    /\ scene.counter >= 0
    /\ \A i \in DOMAIN scene.counters : scene.counters[i] >= 0
    /\ \A i \in DOMAIN scene.close :
          ( /\ i + 2 <= Len(scene.close)
            /\ i = 1 \/ scene.counters[i - 1] = 0
            /\ scene.close[i] /\ scene.close[i + 1] /\ scene.close[i + 2] )
          => /\ scene.altercations[i] = 0
             /\ scene.altercations[i + 1] = 0
             /\ scene.altercations[i + 2] = 1
             /\ scene.counters[i + 2] = 0
             /\ ( i + 3 <= Len(scene.close) /\ scene.close[i + 3] )
                   => scene.altercations[i + 3] = 0

\* Four close frames from the start: the third has fired, the fourth has not.
FiredOnceInFourFrames ==
    /\ scene.close = << TRUE, TRUE, TRUE, TRUE >>
    /\ scene.altercations = << 0, 0, 1, 0 >>
    /\ scene.counter = 1
    /\ \E i \in DOMAIN SUSPICIOUS_EVENTS : SUSPICIOUS_EVENTS[i].type = "Altercation"

DescriptorConsistent ==
    \A p \in Pipelines :
       req[p].pc # "load" => (VIDEO_PATH[p] # "none" <=> SOURCE[p] = "video")

\* C32: in each of the three loops a candidate that commits nothing leaves
\* the last-emitted timestamps of its run as they were, and a candidate that
\* passes the confidence and label tests is committed whenever every commit
\* of its run for the same label or identity is a full window back (and, in
\* the activity loop, every commit of the run the overall window back):
\* suppressed candidates in between do not postpone it.
SuppressedKeepsWindows ==
    /\ [][( /\ loop.live /\ loop.pipe = "videomae" /\ loop.pc = "infer"
            /\ loop'.pc = "top" /\ loop'.id = loop.id )
          => /\ commits' = commits
                  => /\ loop'.last_label_emit = loop.last_label_emit
                     /\ loop'.last_any_emit = loop.last_any_emit
             /\ ( /\ ~Skipped(loop'.label, loop'.prob)
                  /\ \A i \in 1..Len(commits) :
                        commits[i].run = loop.id
                           => /\ loop.now - commits[i].at >= ANY_COOLDOWN
                              /\ commits[i].label = loop'.label
                                    => loop.now - commits[i].at >= DEDUP_SEC )
                  => Len(commits') = Len(commits) + 1]_vars
    /\ [][( /\ loop.live /\ loop.pipe = "missing" /\ loop.pc = "top"
            /\ loop'.live /\ clock' = clock )
          => /\ commits' = commits
                  => loop'.last_person_emit = loop.last_person_emit
             /\ ( /\ loop'.prob < DISTANCE_THRESHOLD * 10
                  /\ \A i \in 1..Len(commits) :
                        ( commits[i].run = loop.id
                          /\ commits[i].label = loop'.label )
                           => clock - commits[i].at >= PERSON_DEDUP_SEC )
                  => Len(commits') = Len(commits) + 1]_vars
    /\ [][( /\ loop.live /\ loop.pipe = "batch" /\ loop.pc = "boxes"
            /\ loop'.pc = "boxes" /\ clock' = clock )
          => /\ commits' = commits => loop'.last_emit = loop.last_emit
             /\ ( /\ loop'.prob >= CONF_TH
                  /\ loop'.label # "People"
                  /\ \A i \in 1..Len(commits) :
                        ( commits[i].run = loop.id
                          /\ commits[i].label = loop'.label )
                           => clock - commits[i].at >= COOLDOWN_SEC )
                  => Len(commits') = Len(commits) + 1]_vars

\* The activity loop has committed a label, has met it again 9 s later and
\* passed, and its windows still start at the commit.
SuppressedAfterCommit ==
    /\ loop.live /\ loop.pipe = "videomae" /\ loop.pc = "top"
    /\ Len(commits) = 1
    /\ commits[1].run = loop.id /\ commits[1].label = "Fighting"
    /\ loop.label = "Fighting" /\ loop.prob = 700
    /\ loop.now = commits[1].at + 9
    /\ loop.last_label_emit["Fighting"] = commits[1].at
    /\ loop.last_any_emit = commits[1].at

\* C33: get_videomae_clip returns None or a clip of exactly 16 frames; None
\* if and only if the first read and its one retry both failed; in a clip
\* every frame of a read that succeeded is that read's own frame, and every
\* read that failed after a frame was obtained is filled with the last good
\* frame.
ClipIsNoneOrFull ==
    clip.pc = "done" =>
        /\ clip.isNone \/ Len(clip.frames) = 16
        /\ clip.isNone <=> ( /\ \A k \in DOMAIN clip.rets : ~clip.rets[k]
                             /\ clip.retry # "ok" )
        /\ clip.isNone => ( /\ clip.rets = << FALSE >>
                            /\ clip.retry = "failed"
                            /\ clip.reads = 2 )
        /\ ~clip.isNone =>
              /\ Len(clip.rets) = 16
              /\ \A k \in 1..16 :
                    /\ clip.rets[k] =>
                          \A j \in 1..(k - 1) : clip.frames[j] # clip.frames[k]
                    /\ ( ~clip.rets[k] /\ k > 1 ) =>
                          clip.frames[k] = clip.frames[k - 1]

\* A clip of 16 frames whose first read failed and was retried with
\* success, whose second read failed and was filled with that frame, and
\* whose third read gave a new frame.
ClipRetriedAndPadded ==
    /\ clip.pc = "done" /\ ~clip.isNone
    /\ Len(clip.frames) = 16
    /\ ~clip.rets[1] /\ clip.retry = "ok" /\ clip.frames[1] = 2
    /\ ~clip.rets[2] /\ clip.frames[2] = 2
    /\ clip.rets[3] /\ clip.frames[3] = 4
    /\ ~clip.rets[16] /\ clip.frames[16] = clip.frames[15]

\* C34: a call of the single-image matching request commits one alert if
\* some face of the image has a distance below 100, for a face of the
\* smallest distance, whatever was committed before and however shortly;
\* if no face is below 100 (or no model is trained) it commits no alert and
\* no event; it never commits more than one.
ImageCommitsBestOnly ==
    loop.pipe = "image" =>
        LET faces == loop.faces
            close == {k \in DOMAIN faces : faces[k].distance < 1000}
            alerts == Len(MISSING_PERSON_ALERTS) - loop.alerts
            events == Len(SUSPICIOUS_EVENTS) - loop.events
            last == MISSING_PERSON_ALERTS[Len(MISSING_PERSON_ALERTS)]
        IN  /\ alerts \in {0, 1}
            /\ ( loop.trained /\ close # {} ) =>
                  /\ alerts = 1
                  /\ \E k \in close :
                        /\ \A j \in close : faces[k].distance <= faces[j].distance
                        /\ last.name = faces[k].name
                        /\ last.confidence = Confidence(faces[k].distance)
            /\ ( ~loop.trained \/ close = {} ) => ( alerts = 0 /\ events = 0 )

\* Two calls one second apart, each with two faces below 100: both have
\* committed the same person, the closer face of the second call being its
\* second.
SamePersonTwiceInASecond ==
    /\ loop.pipe = "image" /\ loop.id = 2
    /\ Len(loop.faces) = 2
    /\ loop.faces[1].distance = 999 /\ loop.faces[2].distance = 405
    /\ loop.faces[1].name # loop.faces[2].name
    /\ Len(commits) = 2
    /\ commits[1].label = commits[2].label
    /\ commits[2].label = loop.faces[2].name
    /\ commits[2].at - commits[1].at = 1

====
